---------------------------- MODULE Spec2Model ----------------------------
(***************************************************************************)
(* Conversion orchestration engine of Convertify (src-tauri/src):          *)
(* the Tauri commands start_convert / cancel_convert / is_converting       *)
(* (lib.rs), the orchestrator start_conversion with its argument builder   *)
(* and elapsed-time parser (convert.rs), the preset catalog (presets.rs)   *)
(* and the run log with its bounded store (logger.rs).                     *)
(*                                                                         *)
(* Conventions.                                                            *)
(*  - Option<T>: <<>> is None, <<v>> is Some(v).                          *)
(*  - Text the code inspects character by character (paths, arguments,     *)
(*    preset ids, elapsed-time text) is a tuple of one-character strings.  *)
(*  - f64 seconds are fixed-point hundredths of a second (integers);       *)
(*    a percentage is fixed-point hundredths of a percent, rounded down.   *)
(*    Rounding down keeps the sign and keeps "<= 100.00" exact.            *)
(***************************************************************************)
EXTENDS Integers, Sequences, FiniteSets, TLC

(***************************************************************************)
(* Bounds of the model.                                                    *)
(***************************************************************************)
\* number of concurrent command invocations (UI callers) that are modelled
NumCallers == 2
\* start_convert calls issued in one behaviour of the application
MaxRuns == 2
\* events the external process delivers to one run, when several runs are followed
MaxAppEvents == 1
\* events the external process delivers to the run, when one run is followed
MaxEvents == 2
\* capacity the LogStore is constructed with (LogStore::new(max_logs, _))
max_logs == 1
\* add_log calls the clients of the store make
MaxStoreCalls == 3
\* add_entry calls made on one ConversionLog by a client that drives it directly
MaxEntries == 3
\* length of the extra-argument strings that are tokenized
MaxExtraLen == 4
\* length of the elapsed-time texts that are parsed exhaustively
MaxTimeLen == 5

Callers == 1 .. NumCallers

None == <<>>
Some(v) == <<v>>
IsSome(o) == o # <<>>
Unwrap(o) == o[1]

(***************************************************************************)
(* presets.rs                                                              *)
(***************************************************************************)
get_all_presets ==
  <<
    [ id |-> <<"m","p","4","_","h","2","6","4">>,
      extension |-> <<"m","p","4">>,
      format |-> << <<"m","p","4">> >>,
      video_codec |-> << <<"l","i","b","x","2","6","4">> >>,
      audio_codec |-> << <<"a","a","c">> >>,
      extra_args |-> << <<"-","p","r","e","s","e","t">>,
                      <<"m","e","d","i","u","m">>,
                      <<"-","c","r","f">>,
                      <<"2","3">> >> ],
    [ id |-> <<"m","p","4","_","h","2","6","5">>,
      extension |-> <<"m","p","4">>,
      format |-> << <<"m","p","4">> >>,
      video_codec |-> << <<"l","i","b","x","2","6","5">> >>,
      audio_codec |-> << <<"a","a","c">> >>,
      extra_args |-> << <<"-","p","r","e","s","e","t">>,
                      <<"m","e","d","i","u","m">>,
                      <<"-","c","r","f">>,
                      <<"2","8">> >> ],
    [ id |-> <<"w","e","b","m","_","v","p","9">>,
      extension |-> <<"w","e","b","m">>,
      format |-> << <<"w","e","b","m">> >>,
      video_codec |-> << <<"l","i","b","v","p","x","-","v","p","9">> >>,
      audio_codec |-> << <<"l","i","b","o","p","u","s">> >>,
      extra_args |-> << <<"-","c","r","f">>,
                      <<"3","0">>,
                      <<"-","b",":","v">>,
                      <<"0">> >> ],
    [ id |-> <<"a","v","i">>,
      extension |-> <<"a","v","i">>,
      format |-> << <<"a","v","i">> >>,
      video_codec |-> << <<"m","p","e","g","4">> >>,
      audio_codec |-> << <<"m","p","3">> >>,
      extra_args |-> << <<"-","q",":","v">>,
                      <<"5">> >> ],
    [ id |-> <<"m","k","v">>,
      extension |-> <<"m","k","v">>,
      format |-> << <<"m","a","t","r","o","s","k","a">> >>,
      video_codec |-> << <<"l","i","b","x","2","6","4">> >>,
      audio_codec |-> << <<"a","a","c">> >>,
      extra_args |-> << <<"-","p","r","e","s","e","t">>,
                      <<"m","e","d","i","u","m">>,
                      <<"-","c","r","f">>,
                      <<"2","3">> >> ],
    [ id |-> <<"m","o","v">>,
      extension |-> <<"m","o","v">>,
      format |-> << <<"m","o","v">> >>,
      video_codec |-> << <<"p","r","o","r","e","s","_","k","s">> >>,
      audio_codec |-> << <<"p","c","m","_","s","1","6","l","e">> >>,
      extra_args |-> << <<"-","p","r","o","f","i","l","e",":","v">>,
                      <<"3">> >> ],
    [ id |-> <<"g","i","f">>,
      extension |-> <<"g","i","f">>,
      format |-> << <<"g","i","f">> >>,
      video_codec |-> <<>>,
      audio_codec |-> <<>>,
      extra_args |-> << <<"-","v","f">>,
                      <<"f","p","s","=","1","5",",","s","c","a","l","e","=","4","8","0",":","-","1",":","f","l","a","g","s","=","l","a","n","c","z","o","s",",","s","p","l","i","t","[","s","0","]","[","s","1","]",";","[","s","0","]","p","a","l","e","t","t","e","g","e","n","[","p","]",";","[","s","1","]","[","p","]","p","a","l","e","t","t","e","u","s","e">> >> ],
    [ id |-> <<"m","p","3">>,
      extension |-> <<"m","p","3">>,
      format |-> << <<"m","p","3">> >>,
      video_codec |-> <<>>,
      audio_codec |-> << <<"l","i","b","m","p","3","l","a","m","e">> >>,
      extra_args |-> << <<"-","q",":","a">>,
                      <<"2">>,
                      <<"-","v","n">> >> ],
    [ id |-> <<"a","a","c">>,
      extension |-> <<"m","4","a">>,
      format |-> << <<"i","p","o","d">> >>,
      video_codec |-> <<>>,
      audio_codec |-> << <<"a","a","c">> >>,
      extra_args |-> << <<"-","b",":","a">>,
                      <<"1","9","2","k">>,
                      <<"-","v","n">> >> ],
    [ id |-> <<"f","l","a","c">>,
      extension |-> <<"f","l","a","c">>,
      format |-> << <<"f","l","a","c">> >>,
      video_codec |-> <<>>,
      audio_codec |-> << <<"f","l","a","c">> >>,
      extra_args |-> << <<"-","v","n">> >> ],
    [ id |-> <<"o","p","u","s">>,
      extension |-> <<"o","p","u","s">>,
      format |-> << <<"o","p","u","s">> >>,
      video_codec |-> <<>>,
      audio_codec |-> << <<"l","i","b","o","p","u","s">> >>,
      extra_args |-> << <<"-","b",":","a">>,
                      <<"1","2","8","k">>,
                      <<"-","v","n">> >> ],
    [ id |-> <<"w","a","v">>,
      extension |-> <<"w","a","v">>,
      format |-> << <<"w","a","v">> >>,
      video_codec |-> <<>>,
      audio_codec |-> << <<"p","c","m","_","s","1","6","l","e">> >>,
      extra_args |-> << <<"-","v","n">> >> ],
    [ id |-> <<"p","n","g">>,
      extension |-> <<"p","n","g">>,
      format |-> << <<"i","m","a","g","e","2">> >>,
      video_codec |-> << <<"p","n","g">> >>,
      audio_codec |-> <<>>,
      extra_args |-> << <<"-","f","r","a","m","e","s",":","v">>,
                      <<"1">>,
                      <<"-","a","n">> >> ],
    [ id |-> <<"j","p","g">>,
      extension |-> <<"j","p","g">>,
      format |-> << <<"i","m","a","g","e","2">> >>,
      video_codec |-> << <<"m","j","p","e","g">> >>,
      audio_codec |-> <<>>,
      extra_args |-> << <<"-","f","r","a","m","e","s",":","v">>,
                      <<"1">>,
                      <<"-","q",":","v">>,
                      <<"2">>,
                      <<"-","a","n">> >> ],
    [ id |-> <<"w","e","b","p">>,
      extension |-> <<"w","e","b","p">>,
      format |-> << <<"w","e","b","p">> >>,
      video_codec |-> << <<"l","i","b","w","e","b","p">> >>,
      audio_codec |-> <<>>,
      extra_args |-> << <<"-","f","r","a","m","e","s",":","v">>,
                      <<"1">>,
                      <<"-","q","u","a","l","i","t","y">>,
                      <<"8","0">>,
                      <<"-","a","n">> >> ]
  >>

\* Vec::into_iter().find(|p| p.id == id)
RECURSIVE FindFrom(_, _, _)
FindFrom(presets, id, i) ==
  IF i > Len(presets) THEN None
  ELSE IF presets[i].id = id THEN Some(presets[i])
  ELSE FindFrom(presets, id, i + 1)

find_preset(id) == FindFrom(get_all_presets, id, 1)

\* a slip: the codecs are emitted before the format
Preset_build_args_CodecsFirst(p) ==
     (IF IsSome(p.video_codec)
        THEN << <<"-","c",":","v">>, Unwrap(p.video_codec) >> ELSE <<>>)
  \o (IF IsSome(p.audio_codec)
        THEN << <<"-","c",":","a">>, Unwrap(p.audio_codec) >> ELSE <<>>)
  \o (IF IsSome(p.format) THEN << <<"-","f">>, Unwrap(p.format) >> ELSE <<>>)
  \o p.extra_args

\* Preset::build_args: format, video codec, audio codec, extra args
Preset_build_args(p) ==
     (IF IsSome(p.format) THEN << <<"-","f">>, Unwrap(p.format) >> ELSE <<>>)
  \o (IF IsSome(p.video_codec)
        THEN << <<"-","c",":","v">>, Unwrap(p.video_codec) >> ELSE <<>>)
  \o (IF IsSome(p.audio_codec)
        THEN << <<"-","c",":","a">>, Unwrap(p.audio_codec) >> ELSE <<>>)
  \o p.extra_args

(***************************************************************************)
(* convert.rs: argument builder                                            *)
(***************************************************************************)
\* a slip: subtitles are left out by default
StreamSelection_default_NoSubtitles ==
  [include_video |-> TRUE, include_audio |-> TRUE, include_subtitles |-> FALSE]

\* StreamSelection::default()
StreamSelection_default ==
  [include_video |-> TRUE, include_audio |-> TRUE, include_subtitles |-> TRUE]

\* One step of the character loop of parse_extra_args; st is
\* [args, current, in_quotes, quote_char].
parse_extra_step(st, c) ==
  IF c \in {"\"", "'"} /\ ~st.in_quotes
    THEN [st EXCEPT !.in_quotes = TRUE, !.quote_char = c]
  ELSE IF c = st.quote_char /\ st.in_quotes
    THEN [st EXCEPT !.in_quotes = FALSE]
  ELSE IF c = " " /\ ~st.in_quotes
    THEN IF st.current # <<>>
           THEN [st EXCEPT !.args = Append(st.args, st.current), !.current = <<>>]
           ELSE st
  ELSE [st EXCEPT !.current = Append(st.current, c)]

RECURSIVE parse_extra_loop(_, _, _)
parse_extra_loop(extra, i, st) ==
  IF i > Len(extra) THEN st
  ELSE parse_extra_loop(extra, i + 1, parse_extra_step(st, extra[i]))

parse_extra_args(extra) ==
  LET st == parse_extra_loop(extra, 1,
              [args |-> <<>>, current |-> <<>>, in_quotes |-> FALSE, quote_char |-> " "])
  IN  IF st.current # <<>> THEN Append(st.args, st.current) ELSE st.args

\* args.iter().position(|a| a == flag), as an Option of a 1-based index
RECURSIVE PositionFrom(_, _, _)
PositionFrom(args, flag, i) ==
  IF i > Len(args) THEN None
  ELSE IF args[i] = flag THEN Some(i)
  ELSE PositionFrom(args, flag, i + 1)

\* Vec::remove(pos), 1-based
RemoveAt(args, pos) ==
  SubSeq(args, 1, pos - 1) \o SubSeq(args, pos + 1, Len(args))

\* "Remove any existing <flag> if present": the flag and, if one follows, the
\* element after it
RemoveFlagPair(args, flag) ==
  LET p == PositionFrom(args, flag, 1) IN
  IF IsSome(p)
    THEN LET a1 == RemoveAt(args, Unwrap(p)) IN
         IF Unwrap(p) <= Len(a1) THEN RemoveAt(a1, Unwrap(p)) ELSE a1
    ELSE args

\* the advanced-options block of build_ffmpeg_args
ApplyAdvanced(args, adv) ==
  LET a1 == IF IsSome(adv.format)
              THEN args \o << <<"-","f">>, Unwrap(adv.format) >> ELSE args
      a2 == IF IsSome(adv.video_codec)
              THEN RemoveFlagPair(a1, <<"-","c",":","v">>)
                     \o << <<"-","c",":","v">>, Unwrap(adv.video_codec) >>
              ELSE a1
      a3 == IF IsSome(adv.audio_codec)
              THEN RemoveFlagPair(a2, <<"-","c",":","a">>)
                     \o << <<"-","c",":","a">>, Unwrap(adv.audio_codec) >>
              ELSE a2
  IN  IF IsSome(adv.extra_args)
        THEN a3 \o parse_extra_args(Unwrap(adv.extra_args)) ELSE a3

\* build_ffmpeg_args: [ok |-> TRUE, args |-> ...] or
\* [ok |-> FALSE, err |-> <<"PresetNotFound", id>>]
build_ffmpeg_args(options) ==
  LET sel == IF IsSome(options.stream_selection)
               THEN Unwrap(options.stream_selection) ELSE StreamSelection_default
      a0 == << <<"-","i">>, options.input_path >>
              \o (IF ~sel.include_video THEN << <<"-","v","n">> >> ELSE <<>>)
              \o (IF ~sel.include_audio THEN << <<"-","a","n">> >> ELSE <<>>)
              \o (IF ~sel.include_subtitles THEN << <<"-","s","n">> >> ELSE <<>>)
      found == IF IsSome(options.preset_id)
                 THEN find_preset(Unwrap(options.preset_id)) ELSE None
  IN  IF IsSome(options.preset_id) /\ ~IsSome(found)
        THEN [ok |-> FALSE, err |-> <<"PresetNotFound", Unwrap(options.preset_id)>>]
        ELSE LET a1 == IF IsSome(found)
                         THEN a0 \o Preset_build_args(Unwrap(found)) ELSE a0
                 a2 == IF IsSome(options.advanced)
                         THEN ApplyAdvanced(a1, Unwrap(options.advanced)) ELSE a1
             IN  [ok |-> TRUE,
                  args |-> a2 \o << <<"-","y">>, options.output_path >>]

(***************************************************************************)
(* convert.rs: elapsed-time text and percentage                            *)
(***************************************************************************)
DigitChars == <<"0","1","2","3","4","5","6","7","8","9">>
IsDigit(c) == \E d \in 1 .. 10 : DigitChars[d] = c
DigitVal(c) == (CHOOSE d \in 1 .. 10 : DigitChars[d] = c) - 1

\* str::split(sep): the pieces between separators (always at least one piece)
RECURSIVE SplitFrom(_, _, _, _)
SplitFrom(s, sep, i, cur) ==
  IF i > Len(s) THEN << cur >>
  ELSE IF s[i] = sep THEN << cur >> \o SplitFrom(s, sep, i + 1, <<>>)
  ELSE SplitFrom(s, sep, i + 1, Append(cur, s[i]))

Split(s, sep) == SplitFrom(s, sep, 1, <<>>)

RECURSIVE DecVal(_)
DecVal(ds) ==
  IF ds = <<>> THEN 0
  ELSE 10 * DecVal(SubSeq(ds, 1, Len(ds) - 1)) + DigitVal(ds[Len(ds)])

\* str::parse::<f64>() on sign? digits [. digits], at least one digit; the
\* value in hundredths (digits past the second decimal are dropped).  Texts
\* with other characters do not parse; exponents and the inf/nan spellings
\* are outside the sampled alphabet.
ParseF64(s) ==
  LET neg   == s # <<>> /\ s[1] = "-"
      body  == IF s # <<>> /\ s[1] \in {"+", "-"} THEN Tail(s) ELSE s
      pts   == Split(body, ".")
      ip    == pts[1]
      fp    == IF Len(pts) = 2 THEN pts[2] ELSE <<>>
      wellformed ==
        /\ Len(pts) <= 2
        /\ \A i \in 1 .. Len(ip) : IsDigit(ip[i])
        /\ \A i \in 1 .. Len(fp) : IsDigit(fp[i])
        /\ Len(ip) + Len(fp) > 0
      f2    == SubSeq(fp \o <<"0","0">>, 1, 2)
      mag   == 100 * DecVal(ip) + DecVal(f2)
  IN  IF wellformed THEN Some(IF neg THEN 0 - mag ELSE mag) ELSE None

unwrap_or(o, d) == IF IsSome(o) THEN Unwrap(o) ELSE d

\* a slip: a two-part text is read as minutes and seconds
parse_time_str_TwoParts(time) ==
  LET parts == Split(time, ":") IN
  IF Len(parts) = 3
    THEN unwrap_or(ParseF64(parts[1]), 0) * 3600 + unwrap_or(ParseF64(parts[2]), 0) * 60
           + unwrap_or(ParseF64(parts[3]), 0)
  ELSE IF Len(parts) = 2
    THEN unwrap_or(ParseF64(parts[1]), 0) * 60 + unwrap_or(ParseF64(parts[2]), 0)
  ELSE 0

\* parse_time_str: "HH:MM:SS.ms" to seconds (hundredths)
parse_time_str(time) ==
  LET parts == Split(time, ":") IN
  IF Len(parts) = 3
    THEN LET hours   == unwrap_or(ParseF64(parts[1]), 0)
             minutes == unwrap_or(ParseF64(parts[2]), 0)
             seconds == unwrap_or(ParseF64(parts[3]), 0)
         IN  hours * 3600 + minutes * 60 + seconds
    ELSE 0

Min(a, b) == IF a <= b THEN a ELSE b

\* a slip: without a duration the elapsed seconds are reported as the percent
percent_of_ElapsedAsPercent(time_secs, duration) ==
  IF IsSome(duration)
    THEN IF Unwrap(duration) > 0
           THEN Min((time_secs * 10000) \div Unwrap(duration), 10000)
           ELSE 0
    ELSE Min(time_secs * 100, 10000)

\* the percent of a progress event (hundredths of a percent):
\* (time_secs / dur * 100.0).min(100.0) when dur > 0.0, else 0.0
percent_of(time_secs, duration) ==
  IF IsSome(duration)
    THEN IF Unwrap(duration) > 0
           THEN Min((time_secs * 10000) \div Unwrap(duration), 10000)
           ELSE 0
    ELSE 0

(***************************************************************************)
(* logger.rs                                                               *)
(***************************************************************************)
\* ConversionLog::new at time now
ConversionLog_new(now, input_path, output_path, preset_id, advanced_options, ffmpeg_command) ==
  [ id |-> now, started_at |-> now, ended_at |-> None,
    input_path |-> input_path, output_path |-> output_path,
    preset_id |-> preset_id, advanced_options |-> advanced_options,
    ffmpeg_command |-> ffmpeg_command,
    success |-> FALSE, error_message |-> None, entries |-> <<>> ]

\* ConversionLog::add_entry
add_entry(log, now, level, message, context) ==
  [log EXCEPT !.entries = Append(@, [timestamp |-> now, level |-> level,
                                     message |-> message, context |-> context])]

\* ConversionLog::finish
finish(log, now, success, error_message) ==
  [log EXCEPT !.ended_at = Some(now), !.success = success,
              !.error_message = error_message]

level_str(level) ==
  CASE level = "Info" -> "INFO"
    [] level = "Warning" -> "WARN"
    [] level = "Error" -> "ERROR"
    [] level = "Debug" -> "DEBUG"

\* one rendered entry line: "[ts] [LEVEL] message" and " (ctx)" if present
format_entry(e) ==
  << "[", e.timestamp, "] [", level_str(e.level), "] ", e.message >>
    \o (IF IsSome(e.context) THEN << " (", Unwrap(e.context), ")" >> ELSE <<>>)

\* format_log_for_file: the block of lines of one log
format_log_for_file(log) ==
     << <<"=== Conversion ", log.id, " ===">>, <<"Started: ", log.started_at>> >>
  \o (IF IsSome(log.ended_at) THEN << <<"Ended: ", Unwrap(log.ended_at)>> >> ELSE <<>>)
  \o << <<"Input: ", log.input_path>>, <<"Output: ", log.output_path>> >>
  \o (IF IsSome(log.preset_id) THEN << <<"Preset: ", Unwrap(log.preset_id)>> >> ELSE <<>>)
  \o (IF IsSome(log.advanced_options)
        THEN << <<"Advanced: ", Unwrap(log.advanced_options)>> >> ELSE <<>>)
  \o << <<"Command: ", log.ffmpeg_command>>, <<"Success: ", log.success>> >>
  \o (IF IsSome(log.error_message)
        THEN << <<"Error: ", Unwrap(log.error_message)>> >> ELSE <<>>)
  \o << <<>>, <<"--- Log Entries ---">> >>
  \o [i \in 1 .. Len(log.entries) |-> format_entry(log.entries[i])]
  \o << <<>>, <<>> >>

\* the in-memory part of LogStore::add_log: push, then drop the oldest while
\* the length exceeds max_logs
RECURSIVE Evict(_, _)
Evict(ls, cap) == IF Len(ls) > cap THEN Evict(Tail(ls), cap) ELSE ls

\* a slip: the newest logs are dropped when the sequence is over capacity
add_log_memory_EvictNewest(ls, log) ==
  SubSeq(Append(ls, log), 1, Min(Len(ls) + 1, max_logs))

add_log_memory(ls, log) == Evict(Append(ls, log), max_logs)

\* LogStore::get_logs on the sequence ls
get_logs(ls) == ls

\* LogStore::get_last_log on the sequence ls
get_last_log(ls) == IF Len(ls) = 0 THEN None ELSE Some(ls[Len(ls)])

\* the file part of LogStore::add_log: append the rendered block when a log
\* directory is configured
add_log_file(f, dir, log) ==
  IF IsSome(dir) THEN f \o format_log_for_file(log) ELSE f

(***************************************************************************)
(* Inputs of the model                                                     *)
(***************************************************************************)
InputPath == <<"a",".","m","o","v">>
OutputPath == <<"o",".","m","p","4">>

\* preset identifiers a caller passes: none, one of the catalog, an unknown one
PresetIds == { None, Some(<<"m","p","4","_","h","2","6","4">>), Some(<<"n","o","p","e">>) }

\* elapsed-time texts of progress events
T_half == <<"0","0",":","0","0",":","0","5",".","0","0">>
T_over == <<"0","0",":","0","0",":","2","0",".","0","0">>
T_neg == <<"0","0",":","0","0",":","-","5">>
T_two == <<"0","5",":","3","0">>
TimeTexts == { T_half, T_over, T_neg, T_two }

\* what get_duration can return (hundredths of a second): no duration (probe
\* failed or the field was absent or unparsable), zero, negative, positive
Durations == { None, Some(0), Some(-500), Some(1000) }

\* FfmpegEvent values the process can deliver
Ev(kind, level, msg, time) == [kind |-> kind, level |-> level, msg |-> msg, time |-> time]
ProgressEvents == { Ev("Progress", "", <<>>, t) : t \in TimeTexts }
LogEvents ==
  { Ev("Log", "Error", <<"e1">>, <<>>), Ev("Log", "Fatal", <<"e2">>, <<>>),
    Ev("Log", "Warning", <<"w">>, <<>>), Ev("Log", "Info", <<"i">>, <<>>),
    Ev("Log", "Unknown", <<"u">>, <<>>) }
MetaEvents ==
  { Ev(k, "", <<>>, <<>>) :
      k \in { "ParsedVersion", "ParsedConfiguration", "ParsedInput", "ParsedOutput",
              "ParsedStreamMapping" } }
Events == ProgressEvents \cup LogEvents \cup MetaEvents
            \cup { Ev("Done", "", <<>>, <<>>), Ev("LogEOF", "", <<>>, <<>>) }

(***************************************************************************)
(* State                                                                   *)
(***************************************************************************)
VARIABLES
  converting,    \* AppState.converting: the bool inside the tokio Mutex
  lock,          \* holder of the AppState.converting MutexGuard, 0 when free
  cancel_flag,   \* AppState.cancel_flag
  pc,            \* position of each caller's command invocation
  run,           \* the locals of each caller's start_convert / start_conversion
  ret,           \* the value the most recent command returned, or None
  logs,          \* LogStore.logs
  log_dir,       \* LogStore.log_dir
  file,          \* lines of <log_dir>/conversion_log.txt
  clock,         \* Local::now(), advanced when the model lets time pass
  nCalls,        \* start_convert calls issued so far
  hist,          \* what the clients of the LogStore have done to it so far
  fs,            \* what Path::exists answers for the paths a command asks about
  ffprobe,       \* what running the ffprobe executable does
  call           \* the get_output_path / probe_file invocation in progress, or None

vars == << converting, lock, cancel_flag, pc, run, ret, logs, log_dir, file,
           clock, nCalls, hist, fs, ffprobe, call >>

\* The locals of one start_convert invocation.  options .. result are the
\* variables of the code; the remaining fields record what has happened.
InitRun ==
  [ options |-> None, args |-> <<>>, conv_log |-> None, duration |-> None,
    child |-> "none", status |-> None,
    last_error |-> None, warning_count |-> 0, error_count |-> 0,
    result |-> None,
    emitted |-> <<>>,        \* app_handle.emit calls of this run, in order
    n_finish |-> 0,          \* ConversionLog::finish calls
    n_add_log |-> 0,         \* LogStore::add_log calls
    fetched |-> 0,           \* events taken from the iterator
    seen |-> <<>>,           \* the events that reached the match, in order
    called_active |-> FALSE, \* converting was set when the command was issued
    cancel_req |-> None ]    \* first cancel_convert after the flag reset

InRun(c) == pc[c] \in { "conv_build", "conv_validate", "conv_probe", "conv_spawn",
                        "conv_loop", "conv_wait" }

\* Nothing has been done to the store yet.  pushed: the logs add_log pushed
\* onto the sequence, in order; since_clear: those pushed since the last
\* clear_logs; appended: the logs whose block add_log wrote to the file, in
\* order; failed: the logs whose block could not be written.
InitHist == [pushed |-> <<>>, since_clear |-> <<>>, appended |-> <<>>, failed |-> {}]

\* the environment of a run that asks neither command about it: an empty
\* directory beside the input, and an ffprobe that cannot be started
InitFs == [input |-> TRUE, base |-> FALSE, series |-> {}]
InitFfprobe == [started |-> FALSE, success |-> FALSE, stderr |-> <<>>, stdout |-> None]

\* AppState::default() and LogStore::new(max_logs, log_dir), log_dir one of dirs
InitIn(dirs, file_systems, ffprobes) ==
  /\ converting = FALSE
  /\ lock = 0
  /\ cancel_flag = FALSE
  /\ pc = [c \in Callers |-> "idle"]
  /\ run = [c \in Callers |-> InitRun]
  /\ ret = None
  /\ logs = <<>>
  /\ log_dir \in dirs
  /\ file = <<>>
  /\ clock = 0
  /\ nCalls = 0
  /\ hist = InitHist
  /\ fs \in file_systems
  /\ ffprobe \in ffprobes
  /\ call = None

InitWith(dirs) == InitIn(dirs, { InitFs }, { InitFfprobe })

(***************************************************************************)
(* Helpers on the locals of a run                                          *)
(***************************************************************************)
Ok(kind, msg) == [ok |-> TRUE, kind |-> kind, msg |-> msg]
Err(kind, msg) == [ok |-> FALSE, kind |-> kind, msg |-> msg]

Note(name, percent, time_secs, payload) ==
  [name |-> name, percent |-> percent, time_secs |-> time_secs, payload |-> payload]

\* conv_log.add_entry(level, message, context) at the current time
Entry(r, level, message, context) ==
  [r EXCEPT !.conv_log = Some(add_entry(Unwrap(@), clock, level, message, context))]

\* conv_log.finish(success, error_message) at the current time
Finish(r, success, error_message) ==
  [r EXCEPT !.conv_log = Some(finish(Unwrap(@), clock, success, error_message)),
            !.n_finish = @ + 1]

\* a slip: a failing branch that seals the log twice, first without a message
FailWith_SealTwice(r, level, entry_msg, ctx, error_message, kind) ==
  [Finish(Finish(Entry(r, level, entry_msg, ctx), FALSE, None),
          FALSE, Some(error_message))
     EXCEPT !.result = Some(Err(kind, error_message))]

\* the common shape of a failing branch: an entry, finish(false, Some(msg)),
\* log_store.add_log, return Err
FailWith(r, level, entry_msg, ctx, error_message, kind) ==
  [Finish(Entry(r, level, entry_msg, ctx), FALSE, Some(error_message))
     EXCEPT !.result = Some(Err(kind, error_message))]

\* app_handle.emit
Emit(r, note) == [r EXCEPT !.emitted = Append(@, note)]

\* a slip: only LogLevel::Error is remembered as the final error message
on_log_ErrorOnly(r, level, msg) ==
  IF level \in { "Error", "Fatal" }
    THEN [Entry(r, "Error", msg, Some("FFmpeg"))
            EXCEPT !.error_count = @ + 1,
                   !.last_error = IF level = "Error" THEN Some(msg) ELSE @]
  ELSE IF level = "Warning"
    THEN [Entry(r, "Warning", msg, Some("FFmpeg")) EXCEPT !.warning_count = @ + 1]
  ELSE IF level = "Info"
    THEN Entry(r, "Info", msg, Some("FFmpeg"))
  ELSE Entry(r, "Debug", msg, Some("FFmpeg"))

\* the match on the level of FfmpegEvent::Log(level, msg)
on_log(r, level, msg) ==
  IF level \in { "Error", "Fatal" }
    THEN [Entry(r, "Error", msg, Some("FFmpeg"))
            EXCEPT !.error_count = @ + 1, !.last_error = Some(msg)]
  ELSE IF level = "Warning"
    THEN [Entry(r, "Warning", msg, Some("FFmpeg")) EXCEPT !.warning_count = @ + 1]
  ELSE IF level = "Info"
    THEN Entry(r, "Info", msg, Some("FFmpeg"))
  ELSE Entry(r, "Debug", msg, Some("FFmpeg"))

\* the match on one event inside the loop of start_conversion
on_event(r, ev) ==
  CASE ev.kind = "Progress" ->
         LET time_secs == parse_time_str(ev.time)
             percent == percent_of(time_secs, r.duration)
         IN  Emit(r, Note("convert-progress", percent, time_secs, <<>>))
    [] ev.kind = "Log" -> on_log(r, ev.level, ev.msg)
    [] ev.kind = "ParsedVersion" -> Entry(r, "Info", <<"FFmpeg version: {}">>, None)
    [] ev.kind = "ParsedConfiguration" -> Entry(r, "Debug", <<"FFmpeg config: {:?}">>, None)
    [] ev.kind = "ParsedInput" -> Entry(r, "Info", <<"Input #{}: duration={:?}s">>, None)
    [] ev.kind = "ParsedOutput" -> Entry(r, "Info", <<"Output #{}: {}">>, None)
    [] ev.kind = "ParsedStreamMapping" -> Entry(r, "Debug", <<"Stream mapping: {}">>, None)
    [] ev.kind = "Done" -> Entry(r, "Info", <<"FFmpeg process completed">>, None)
    [] OTHER -> r

\* a slip: the cancellation branch without child.kill()
on_cancel_NoKill(r) ==
  [Finish(Entry(r, "Warning", <<"Conversion cancelled by user">>, None),
          FALSE, Some(<<"Cancelled">>))
     EXCEPT !.result = Some(Err("Cancelled", <<>>))]

\* the cancellation branch at the top of the loop body
on_cancel(r) ==
  [Finish(Entry([r EXCEPT !.child = "killed"],
                "Warning", <<"Conversion cancelled by user">>, None),
          FALSE, Some(<<"Cancelled">>))
     EXCEPT !.result = Some(Err("Cancelled", <<>>))]

\* a slip: the event is matched before the cancellation flag is looked at
loop_turn_DispatchFirst(r, ev, cancelled) ==
  LET r1 == on_event([r EXCEPT !.fetched = @ + 1, !.seen = Append(@, ev)], ev) IN
  IF cancelled THEN on_cancel(r1) ELSE r1

\* one turn of `for event in iter` that yields an event: the cancellation
\* check, then the match
loop_turn(r, ev, cancelled) ==
  LET r1 == [r EXCEPT !.fetched = @ + 1] IN
  IF cancelled THEN on_cancel(r1)
  ELSE on_event([r1 EXCEPT !.seen = Append(@, ev)], ev)

\* the summary entries after child.wait()
Summary(r) ==
  LET r1 == Entry(r, "Info", <<"Conversion took {:.2}s">>, None)
      r2 == IF r.warning_count > 0
              THEN Entry(r1, "Info", <<"Total warnings: ", r.warning_count>>, None) ELSE r1
  IN  IF r.error_count > 0
        THEN Entry(r2, "Info", <<"Total errors: ", r.error_count>>, None) ELSE r2

\* a slip: a zero exit status with captured errors is taken as a failure
on_success_UnlessErrors(r) ==
  IF r.error_count > 0
    THEN Emit([Finish(Entry(Summary(r), "Error",
                            <<"Conversion failed: ", unwrap_or(r.last_error, <<"Unknown error">>)>>,
                            None),
                      FALSE, r.last_error)
                 EXCEPT !.result = Some(Err("ConversionFailed",
                                            unwrap_or(r.last_error, <<"Unknown error">>)))],
              Note("convert-error", 0, 0, unwrap_or(r.last_error, <<"Unknown error">>)))
    ELSE Emit([Finish(Entry(Summary(r), "Info", <<"Conversion successful">>, None), TRUE, None)
                 EXCEPT !.result = Some(Ok("Ok", <<>>))],
              Note("convert-done", 0, 0, <<>>))

\* the branch on a successful exit status
on_success(r) ==
  Emit([Finish(Entry(Summary(r), "Info", <<"Conversion successful">>, None), TRUE, None)
          EXCEPT !.result = Some(Ok("Ok", <<>>))],
       Note("convert-done", 0, 0, <<>>))

\* a slip: the failure branch without app_handle.emit("convert-error", ..)
on_failure_NoEmit(r) ==
  LET error_msg == unwrap_or(r.last_error, <<"Unknown error">>) IN
  [Finish(Entry(Summary(r), "Error", <<"Conversion failed: ", error_msg>>, None),
          FALSE, Some(error_msg))
     EXCEPT !.result = Some(Err("ConversionFailed", error_msg))]

\* the branch on a non-zero exit status
on_failure(r) ==
  LET error_msg == unwrap_or(r.last_error, <<"Unknown error">>) IN
  Emit([Finish(Entry(Summary(r), "Error", <<"Conversion failed: ", error_msg>>, None),
               FALSE, Some(error_msg))
          EXCEPT !.result = Some(Err("ConversionFailed", error_msg))],
       Note("convert-error", 0, 0, error_msg))

\* a slip: a terminal branch that calls log_store.add_log twice
Recorded_Twice(c, r) ==
  /\ run' = [run EXCEPT ![c] = [r EXCEPT !.n_add_log = @ + 2]]
  /\ logs' = add_log_memory(add_log_memory(logs, Unwrap(r.conv_log)), Unwrap(r.conv_log))
  /\ file' = add_log_file(add_log_file(file, log_dir, Unwrap(r.conv_log)), log_dir,
                          Unwrap(r.conv_log))

\* a slip: log_store.add_log is called before conv_log.finish, so the store
\* receives the log as ConversionLog::new and add_entry left it
Recorded_BeforeSeal(c, r) ==
  LET unsealed == [Unwrap(r.conv_log) EXCEPT !.ended_at = None, !.success = FALSE,
                                             !.error_message = None] IN
  /\ run' = [run EXCEPT ![c] = [r EXCEPT !.n_add_log = @ + 1]]
  /\ logs' = add_log_memory(logs, unsealed)
  /\ file' = add_log_file(file, log_dir, unsealed)

\* the run's locals become r and log_store.add_log(conv_log) is called
Recorded(c, r) ==
  /\ run' = [run EXCEPT ![c] = [r EXCEPT !.n_add_log = @ + 1]]
  /\ logs' = add_log_memory(logs, Unwrap(r.conv_log))
  /\ file' = add_log_file(file, log_dir, Unwrap(r.conv_log))

\* the run's locals become r, the store is not touched
NotRecorded(c, r) ==
  /\ run' = [run EXCEPT ![c] = r]
  /\ UNCHANGED << logs, file >>

(***************************************************************************)
(* lib.rs: the commands                                                    *)
(***************************************************************************)
\* start_convert is invoked
StartConvertCall(c, preset_ids, max_calls) ==
  /\ pc[c] = "idle"
  /\ nCalls < max_calls
  /\ \E preset_id \in preset_ids :
       run' = [run EXCEPT ![c] =
                 [InitRun EXCEPT
                    !.options = Some([input_path |-> InputPath, output_path |-> OutputPath,
                                      preset_id |-> preset_id, advanced |-> None,
                                      stream_selection |-> None]),
                    !.called_active = converting]]
  /\ pc' = [pc EXCEPT ![c] = "start_lock"]
  /\ nCalls' = nCalls + 1
  /\ UNCHANGED << converting, lock, cancel_flag, ret, logs, log_dir, fs, ffprobe, call, file, clock, hist >>

\* a slip: no "if *converting" check, and the guard is dropped before the run
StartConvertLock_Unguarded(c) ==
  /\ pc[c] = "start_lock"
  /\ lock = 0
  /\ converting' = TRUE
  /\ pc' = [pc EXCEPT ![c] = "start_reset"]
  /\ UNCHANGED << lock, ret, run, cancel_flag, logs, log_dir, fs, ffprobe, call, file, clock, nCalls, hist >>

\* state.converting.lock().await completes; "if *converting { return Err }",
\* else "*converting = true".  The guard lives to the end of start_convert.
StartConvertLock(c) ==
  /\ pc[c] = "start_lock"
  /\ lock = 0
  /\ IF converting
       THEN /\ ret' = Some(Err("AlreadyInProgress",
                                 <<"A conversion is already in progress">>))
            /\ pc' = [pc EXCEPT ![c] = "idle"]
            /\ run' = [run EXCEPT ![c] = InitRun]
            /\ UNCHANGED << converting, lock >>
       ELSE /\ converting' = TRUE
            /\ lock' = c
            /\ pc' = [pc EXCEPT ![c] = "start_reset"]
            /\ UNCHANGED << ret, run >>
  /\ UNCHANGED << cancel_flag, logs, log_dir, fs, ffprobe, call, file, clock, nCalls, hist >>

\* a slip: start_conversion is entered without the cancel flag being reset
StartConvertReset_KeepFlag(c) ==
  /\ pc[c] = "start_reset"
  /\ pc' = [pc EXCEPT ![c] = "conv_build"]
  /\ UNCHANGED << converting, lock, cancel_flag, run, ret, logs, log_dir, fs, ffprobe, call, file, clock, nCalls, hist >>

\* state.cancel_flag.store(false); then start_conversion is entered
StartConvertReset(c) ==
  /\ pc[c] = "start_reset"
  /\ cancel_flag' = FALSE
  /\ pc' = [pc EXCEPT ![c] = "conv_build"]
  /\ UNCHANGED << converting, lock, run, ret, logs, log_dir, fs, ffprobe, call, file, clock, nCalls, hist >>

\* a slip: the result is returned without "*converting = false"
StartConvertUnmark_KeepFlag(c) ==
  /\ pc[c] = "start_unmark"
  /\ lock' = IF lock = c THEN 0 ELSE lock
  /\ ret' = run[c].result
  /\ run' = [run EXCEPT ![c] = InitRun]
  /\ pc' = [pc EXCEPT ![c] = "idle"]
  /\ UNCHANGED << converting, cancel_flag, logs, log_dir, fs, ffprobe, call, file, clock, nCalls, hist >>

\* "*converting = false", the result is returned and the guard is dropped
StartConvertUnmark(c) ==
  /\ pc[c] = "start_unmark"
  /\ converting' = FALSE
  /\ lock' = IF lock = c THEN 0 ELSE lock
  /\ ret' = run[c].result
  /\ run' = [run EXCEPT ![c] = InitRun]
  /\ pc' = [pc EXCEPT ![c] = "idle"]
  /\ UNCHANGED << cancel_flag, logs, log_dir, fs, ffprobe, call, file, clock, nCalls, hist >>

\* a slip: cancel_convert takes the converting lock, as is_converting does
cancel_convert_Locking ==
  /\ lock = 0
  /\ cancel_flag' = TRUE
  /\ UNCHANGED << converting, lock, pc, run, ret, logs, log_dir, fs, ffprobe, call, file, clock, nCalls, hist >>

\* cancel_convert: one atomic store
cancel_convert ==
  /\ cancel_flag' = TRUE
  /\ run' = [c \in Callers |->
               IF InRun(c) /\ run[c].cancel_req = None
                 THEN [run[c] EXCEPT !.cancel_req =
                         Some([fetched |-> run[c].fetched,
                               emitted |-> Len(run[c].emitted),
                               spawned |-> run[c].child = "running"])]
                 ELSE run[c]]
  /\ UNCHANGED << converting, lock, pc, ret, logs, log_dir, fs, ffprobe, call, file, clock, nCalls, hist >>

\* is_converting is invoked
IsConvertingCall(c) ==
  /\ pc[c] = "idle"
  /\ pc' = [pc EXCEPT ![c] = "isconv_lock"]
  /\ UNCHANGED << converting, lock, cancel_flag, run, ret, logs, log_dir, fs, ffprobe, call, file, clock, nCalls, hist >>

\* state.converting.lock().await completes, the bool is read, the guard dropped
IsConvertingLock(c) ==
  /\ pc[c] = "isconv_lock"
  /\ lock = 0
  /\ ret' = Some(Ok("is_converting", <<converting>>))
  /\ pc' = [pc EXCEPT ![c] = "idle"]
  /\ UNCHANGED << converting, lock, cancel_flag, run, logs, log_dir, fs, ffprobe, call, file, clock, nCalls, hist >>

(***************************************************************************)
(* convert.rs: start_conversion                                            *)
(***************************************************************************)
\* "Create advanced options string for logging"
advanced_str(advanced) ==
  IF IsSome(advanced)
    THEN Some(<< "format=", Unwrap(advanced).format,
                 ", video_codec=", Unwrap(advanced).video_codec,
                 ", audio_codec=", Unwrap(advanced).audio_codec,
                 ", extra_args=", Unwrap(advanced).extra_args >>)
    ELSE None

\* build_ffmpeg_args(&options)?, then ConversionLog::new and the first entry
ConvBuild(c) ==
  /\ pc[c] = "conv_build"
  /\ LET options == Unwrap(run[c].options)
         built == build_ffmpeg_args(options)
     IN  IF ~built.ok
           THEN /\ run' = [run EXCEPT ![c].result = Some(Err(built.err[1], built.err[2]))]
                /\ pc' = [pc EXCEPT ![c] = "start_unmark"]
                /\ UNCHANGED clock
           ELSE /\ clock' = clock + 1
                /\ run' = [run EXCEPT ![c].args = built.args,
                                      ![c].conv_log =
                             Some(add_entry(
                                    ConversionLog_new(clock + 1, options.input_path,
                                                      options.output_path, options.preset_id,
                                                      advanced_str(options.advanced),
                                                      << "ffmpeg", built.args >>),
                                    clock + 1, "Info", <<"Starting conversion">>, None))]
                /\ pc' = [pc EXCEPT ![c] = "conv_validate"]
  /\ UNCHANGED << converting, lock, cancel_flag, ret, logs, log_dir, fs, ffprobe, call, file, nCalls, hist >>

\* a slip: the process is spawned before the two validations
ConvValidate_AfterSpawn(c) ==
  /\ pc[c] = "conv_validate"
  /\ \E input_exists \in BOOLEAN, parent \in { "absent", "exists", "missing" } :
       LET r == [run[c] EXCEPT !.child = "running"] IN
       IF ~input_exists
         THEN /\ Recorded(c, FailWith(r, "Error", <<"Input file not found">>,
                                      Some(Unwrap(r.options).input_path),
                                      <<"Input file not found">>, "InputNotFound"))
              /\ pc' = [pc EXCEPT ![c] = "start_unmark"]
       ELSE IF parent = "missing"
         THEN /\ Recorded(c, FailWith(r, "Error",
                                      <<"Output directory does not exist: {}">>, None,
                                      <<"Output directory does not exist: {}">>,
                                      "InvalidOutputPath"))
              /\ pc' = [pc EXCEPT ![c] = "start_unmark"]
       ELSE /\ NotRecorded(c, r)
            /\ pc' = [pc EXCEPT ![c] = "conv_probe"]
  /\ UNCHANGED << converting, lock, cancel_flag, ret, log_dir, fs, ffprobe, call, clock, nCalls, hist >>

\* "Validate input file exists", "Validate output directory exists".
\* parent is what Path::parent() of the output path is: absent, an existing
\* directory, or a missing one.
ConvValidate(c) ==
  /\ pc[c] = "conv_validate"
  /\ \E input_exists \in BOOLEAN, parent \in { "absent", "exists", "missing" } :
       IF ~input_exists
         THEN /\ Recorded(c, FailWith(run[c], "Error", <<"Input file not found">>,
                                      Some(Unwrap(run[c].options).input_path),
                                      <<"Input file not found">>, "InputNotFound"))
              /\ pc' = [pc EXCEPT ![c] = "start_unmark"]
       ELSE IF parent = "missing"
         THEN /\ Recorded(c, FailWith(run[c], "Error",
                                      <<"Output directory does not exist: {}">>, None,
                                      <<"Output directory does not exist: {}">>,
                                      "InvalidOutputPath"))
              /\ pc' = [pc EXCEPT ![c] = "start_unmark"]
       ELSE /\ NotRecorded(c, run[c])
            /\ pc' = [pc EXCEPT ![c] = "conv_probe"]
  /\ UNCHANGED << converting, lock, cancel_flag, ret, log_dir, fs, ffprobe, call, clock, nCalls, hist >>

\* "Log FFmpeg path", get_duration and the duration entry
ConvProbe(c, ffmpeg_paths, durations) ==
  /\ pc[c] = "conv_probe"
  /\ \E ffmpeg_path \in ffmpeg_paths, duration \in durations :
       LET r1 == IF IsSome(ffmpeg_path)
                   THEN Entry(run[c], "Debug", <<"Using bundled FFmpeg">>, ffmpeg_path)
                   ELSE Entry(run[c], "Debug", <<"Using system FFmpeg">>, None)
           r2 == [r1 EXCEPT !.duration = duration]
       IN  run' = [run EXCEPT ![c] =
                     IF IsSome(duration)
                       THEN Entry(r2, "Info", <<"Input duration: {:.2}s", Unwrap(duration)>>, None)
                       ELSE r2]
  /\ pc' = [pc EXCEPT ![c] = "conv_spawn"]
  /\ UNCHANGED << converting, lock, cancel_flag, ret, logs, log_dir, fs, ffprobe, call, file, clock, nCalls, hist >>

\* cmd.spawn() and child.iter(), each of which can fail
ConvSpawn(c) ==
  /\ pc[c] = "conv_spawn"
  /\ \E outcome \in { "ok", "spawn_err", "iter_err" } :
       LET r1 == Entry(run[c], "Info", <<"Spawning FFmpeg process">>, None) IN
       CASE outcome = "ok" ->
              /\ NotRecorded(c, [r1 EXCEPT !.child = "running"])
              /\ pc' = [pc EXCEPT ![c] = "conv_loop"]
         [] outcome = "spawn_err" ->
              /\ Recorded(c, FailWith(r1, "Error", <<"Failed to spawn ffmpeg: {}">>, None,
                                      <<"Failed to spawn ffmpeg: {}">>, "ConversionFailed"))
              /\ pc' = [pc EXCEPT ![c] = "start_unmark"]
         [] outcome = "iter_err" ->
              /\ Recorded(c, FailWith([r1 EXCEPT !.child = "running"], "Error",
                                      <<"Failed to get iterator: {}">>, None,
                                      <<"Failed to get iterator: {}">>, "ConversionFailed"))
              /\ pc' = [pc EXCEPT ![c] = "start_unmark"]
  /\ UNCHANGED << converting, lock, cancel_flag, ret, log_dir, fs, ffprobe, call, clock, nCalls, hist >>

\* a slip: the Done arm has no break
ConvEvent_NoBreak(c, events, max_events) ==
  /\ pc[c] = "conv_loop"
  /\ run[c].fetched < max_events
  /\ \E ev \in events :
       LET r == loop_turn(run[c], ev, cancel_flag) IN
       IF IsSome(r.result)
         THEN /\ Recorded(c, r)
              /\ pc' = [pc EXCEPT ![c] = "start_unmark"]
         ELSE /\ NotRecorded(c, r)
              /\ pc' = [pc EXCEPT ![c] = "conv_loop"]
  /\ UNCHANGED << converting, lock, cancel_flag, ret, log_dir, fs, ffprobe, call, clock, nCalls, hist >>

\* a turn of the loop in which the iterator yields an event
ConvEvent(c, events, max_events) ==
  /\ pc[c] = "conv_loop"
  /\ run[c].fetched < max_events
  /\ \E ev \in events :
       LET r == loop_turn(run[c], ev, cancel_flag) IN
       IF IsSome(r.result)
         THEN /\ Recorded(c, r)
              /\ pc' = [pc EXCEPT ![c] = "start_unmark"]
         ELSE /\ NotRecorded(c, r)
              /\ pc' = [pc EXCEPT ![c] = IF ev.kind = "Done" THEN "conv_wait" ELSE "conv_loop"]
  /\ UNCHANGED << converting, lock, cancel_flag, ret, log_dir, fs, ffprobe, call, clock, nCalls, hist >>

\* a slip: the cancellation flag is looked at once more when the iterator is
\* exhausted
ConvStreamEnd_CheckCancel(c) ==
  /\ pc[c] = "conv_loop"
  /\ IF cancel_flag
       THEN /\ Recorded(c, on_cancel(run[c]))
            /\ pc' = [pc EXCEPT ![c] = "start_unmark"]
       ELSE /\ pc' = [pc EXCEPT ![c] = "conv_wait"]
            /\ UNCHANGED << run, logs, file >>
  /\ UNCHANGED << converting, lock, cancel_flag, ret, log_dir, fs, ffprobe, call, clock, nCalls, hist >>

\* the iterator is exhausted: the loop ends without a Done event
ConvStreamEnd(c) ==
  /\ pc[c] = "conv_loop"
  /\ pc' = [pc EXCEPT ![c] = "conv_wait"]
  /\ UNCHANGED << converting, lock, cancel_flag, run, ret, logs, log_dir, fs, ffprobe, call, file, clock,
                  nCalls, hist >>

\* child.wait(), the summary entries and the two final branches
ConvWait(c) ==
  /\ pc[c] = "conv_wait"
  /\ \E status \in { "wait_err", "success", "failure" } :
       IF status = "wait_err"
         THEN Recorded(c, FailWith(run[c], "Error", <<"Failed to wait for ffmpeg: {}">>, None,
                                   <<"Failed to wait for ffmpeg: {}">>, "ConversionFailed"))
       ELSE IF status = "success"
         THEN Recorded(c, on_success([run[c] EXCEPT !.child = "exited",
                                                    !.status = Some(status)]))
       ELSE Recorded(c, on_failure([run[c] EXCEPT !.child = "exited",
                                                  !.status = Some(status)]))
  /\ pc' = [pc EXCEPT ![c] = "start_unmark"]
  /\ UNCHANGED << converting, lock, cancel_flag, ret, log_dir, fs, ffprobe, call, clock, nCalls, hist >>

(***************************************************************************)
(* logger.rs: one ConversionLog driven directly by a client                *)
(***************************************************************************)
\* the levels of LogLevel
LogLevels == { "Info", "Warning", "Error", "Debug" }

\* ConversionLog::new
LogNew(c) ==
  /\ pc[c] = "idle"
  /\ nCalls < 1
  /\ nCalls' = nCalls + 1
  /\ clock' = clock + 1
  /\ run' = [run EXCEPT ![c].conv_log =
               Some(ConversionLog_new(clock + 1, InputPath, OutputPath, None, None,
                                      << "ffmpeg", <<>> >>))]
  /\ pc' = [pc EXCEPT ![c] = "log_open"]
  /\ UNCHANGED << converting, lock, cancel_flag, ret, logs, log_dir, fs, ffprobe, call, file, hist >>

\* ConversionLog::add_entry, on a log that may or may not be sealed
LogAddEntry(c) ==
  /\ pc[c] = "log_open"
  /\ Len(Unwrap(run[c].conv_log).entries) < MaxEntries
  /\ \E level \in LogLevels :
       run' = [run EXCEPT ![c] = Entry(run[c], level, << "m" >>, None)]
  /\ UNCHANGED << converting, lock, cancel_flag, pc, ret, logs, log_dir, fs, ffprobe, call, file, clock, nCalls, hist >>

\* ConversionLog::finish, some time after the calls before it
LogFinish(c) ==
  /\ pc[c] = "log_open"
  /\ run[c].n_finish < 2
  /\ clock' = clock + 1
  /\ \E success \in BOOLEAN :
       run' = [run EXCEPT ![c].conv_log =
                 Some(finish(Unwrap(@), clock + 1, success,
                             IF success THEN None ELSE Some(<< "x" >>))),
               ![c].n_finish = @ + 1]
  /\ UNCHANGED << converting, lock, cancel_flag, pc, ret, logs, log_dir, fs, ffprobe, call, file, nCalls, hist >>

(***************************************************************************)
(* logger.rs: the LogStore called by concurrent clients                    *)
(***************************************************************************)
\* a client calls add_log with a sealed ConversionLog of its own
AddLogCall(c) ==
  /\ pc[c] = "idle"
  /\ nCalls < MaxStoreCalls
  /\ nCalls' = nCalls + 1
  /\ clock' = clock + 1
  /\ run' = [run EXCEPT ![c].conv_log =
               Some(finish(ConversionLog_new(clock + 1, InputPath, OutputPath, None, None,
                                             << "ffmpeg", <<>> >>),
                           clock + 1, TRUE, None))]
  /\ pc' = [pc EXCEPT ![c] = "add_log_memory"]
  /\ UNCHANGED << converting, lock, cancel_flag, ret, logs, log_dir, fs, ffprobe, call, file, hist >>

\* add_log under the `logs` mutex: push, evict, drop(logs)
AddLogMemory(c) ==
  /\ pc[c] = "add_log_memory"
  /\ logs' = add_log_memory(logs, Unwrap(run[c].conv_log))
  /\ hist' = [hist EXCEPT !.pushed = Append(@, Unwrap(run[c].conv_log)),
                          !.since_clear = Append(@, Unwrap(run[c].conv_log))]
  /\ pc' = [pc EXCEPT ![c] = "add_log_file"]
  /\ UNCHANGED << converting, lock, cancel_flag, run, ret, log_dir, fs, ffprobe, call, file, clock, nCalls >>

\* add_log under the `log_dir` mutex: with a directory configured the file is
\* opened in append mode and the block written; a failure to open or write is
\* dropped
AddLogFile(c) ==
  /\ pc[c] = "add_log_file"
  /\ \E written \in BOOLEAN :
       IF IsSome(log_dir) /\ written
         THEN /\ file' = add_log_file(file, log_dir, Unwrap(run[c].conv_log))
              /\ hist' = [hist EXCEPT !.appended = Append(@, Unwrap(run[c].conv_log))]
       ELSE IF IsSome(log_dir)
         THEN /\ file' = file
              /\ hist' = [hist EXCEPT !.failed = @ \cup { Unwrap(run[c].conv_log) }]
       ELSE UNCHANGED << file, hist >>
  /\ run' = [run EXCEPT ![c] = InitRun]
  /\ pc' = [pc EXCEPT ![c] = "idle"]
  /\ UNCHANGED << converting, lock, cancel_flag, ret, logs, log_dir, fs, ffprobe, call, clock, nCalls >>

\* a slip: clearing the store also empties the file
clear_logs_Truncating ==
  /\ logs' = <<>>
  /\ file' = <<>>
  /\ hist' = [hist EXCEPT !.since_clear = <<>>]
  /\ UNCHANGED << converting, lock, cancel_flag, pc, run, ret, log_dir, fs, ffprobe, call, clock, nCalls >>

\* LogStore::clear_logs
clear_logs ==
  /\ logs' = <<>>
  /\ hist' = [hist EXCEPT !.since_clear = <<>>]
  /\ UNCHANGED << converting, lock, cancel_flag, pc, run, ret, log_dir, fs, ffprobe, call, file, clock, nCalls >>

\* the match on entry.level inside export_logs
export_level_str(level) ==
  CASE level = "Info" -> "INFO"
    [] level = "Warning" -> "WARN"
    [] level = "Error" -> "ERROR"
    [] level = "Debug" -> "DEBUG"

\* the line export_logs writes for one entry
export_entry(e) ==
  << "[", e.timestamp, "] [", export_level_str(e.level), "] ", e.message >>
    \o (IF IsSome(e.context) THEN << " (", Unwrap(e.context), ")" >> ELSE <<>>)

\* a slip: the entry context is left out of the export
export_block_NoContext(log) ==
     << <<"=== Conversion ", log.id, " ===">>, <<"Started: ", log.started_at>> >>
  \o (IF IsSome(log.ended_at) THEN << <<"Ended: ", Unwrap(log.ended_at)>> >> ELSE <<>>)
  \o << <<"Input: ", log.input_path>>, <<"Output: ", log.output_path>> >>
  \o (IF IsSome(log.preset_id) THEN << <<"Preset: ", Unwrap(log.preset_id)>> >> ELSE <<>>)
  \o (IF IsSome(log.advanced_options)
        THEN << <<"Advanced: ", Unwrap(log.advanced_options)>> >> ELSE <<>>)
  \o << <<"Command: ", log.ffmpeg_command>>, <<"Success: ", log.success>> >>
  \o (IF IsSome(log.error_message)
        THEN << <<"Error: ", Unwrap(log.error_message)>> >> ELSE <<>>)
  \o << <<>>, <<"--- Log Entries ---">> >>
  \o [i \in 1 .. Len(log.entries) |->
        << "[", log.entries[i].timestamp, "] [", export_level_str(log.entries[i].level),
           "] ", log.entries[i].message >>]
  \o << <<>>, <<>> >>

\* the lines one turn of the loop of export_logs writes for a log
export_block(log) ==
     << <<"=== Conversion ", log.id, " ===">>, <<"Started: ", log.started_at>> >>
  \o (IF IsSome(log.ended_at) THEN << <<"Ended: ", Unwrap(log.ended_at)>> >> ELSE <<>>)
  \o << <<"Input: ", log.input_path>>, <<"Output: ", log.output_path>> >>
  \o (IF IsSome(log.preset_id) THEN << <<"Preset: ", Unwrap(log.preset_id)>> >> ELSE <<>>)
  \o (IF IsSome(log.advanced_options)
        THEN << <<"Advanced: ", Unwrap(log.advanced_options)>> >> ELSE <<>>)
  \o << <<"Command: ", log.ffmpeg_command>>, <<"Success: ", log.success>> >>
  \o (IF IsSome(log.error_message)
        THEN << <<"Error: ", Unwrap(log.error_message)>> >> ELSE <<>>)
  \o << <<>>, <<"--- Log Entries ---">> >>
  \o [i \in 1 .. Len(log.entries) |-> export_entry(log.entries[i])]
  \o << <<>>, <<>> >>

\* LogStore::export_logs on the sequence ls: the loop over logs.iter()
RECURSIVE export_logs(_)
export_logs(ls) ==
  IF ls = <<>> THEN <<>> ELSE export_block(Head(ls)) \o export_logs(Tail(ls))

\* a client calls LogStore::export_logs
ExportLogs ==
  /\ ret' = Some(Ok("export_logs", export_logs(logs)))
  /\ UNCHANGED << converting, lock, cancel_flag, pc, run, logs, log_dir, fs, ffprobe, call, file, clock, nCalls, hist >>

\* a client calls LogStore::get_logs
GetLogs ==
  /\ ret' = Some(Ok("get_logs", get_logs(logs)))
  /\ UNCHANGED << converting, lock, cancel_flag, pc, run, logs, log_dir, fs, ffprobe, call, file, clock, nCalls, hist >>

\* a client calls LogStore::get_last_log
GetLastLog ==
  /\ ret' = Some(Ok("get_last_log", get_last_log(logs)))
  /\ UNCHANGED << converting, lock, cancel_flag, pc, run, logs, log_dir, fs, ffprobe, call, file, clock, nCalls, hist >>

(***************************************************************************)
(* convert.rs: generate_output_path                                        *)
(***************************************************************************)
\* the safety limit of the numbered candidates
SafetyLimit == 9999

\* Map format to common extension
format_to_extension(format) ==
  CASE format = <<"m","p","4">> -> <<"m","p","4">>
    [] format = <<"m","o","v">> -> <<"m","o","v">>
    [] format = <<"m","a","t","r","o","s","k","a">> \/ format = <<"m","k","v">> -> <<"m","k","v">>
    [] format = <<"w","e","b","m">> -> <<"w","e","b","m">>
    [] format = <<"a","v","i">> -> <<"a","v","i">>
    [] format = <<"f","l","v">> -> <<"f","l","v">>
    [] format = <<"w","m","v">> -> <<"w","m","v">>
    [] format = <<"m","p","e","g">> -> <<"m","p","e","g">>
    [] format = <<"m","p","e","g","t","s">> -> <<"t","s">>
    [] format = <<"3","g","p">> -> <<"3","g","p">>
    [] format = <<"m","p","3">> -> <<"m","p","3">>
    [] format = <<"f","l","a","c">> -> <<"f","l","a","c">>
    [] format = <<"w","a","v">> -> <<"w","a","v">>
    [] format = <<"o","g","g">> -> <<"o","g","g">>
    [] format = <<"o","p","u","s">> -> <<"o","p","u","s">>
    [] format = <<"a","a","c">> -> <<"a","a","c">>
    [] format = <<"m","4","a">> \/ format = <<"i","p","o","d">> -> <<"m","4","a">>
    [] format = <<"g","i","f">> -> <<"g","i","f">>
    [] format = <<"i","m","a","g","e","2">> \/ format = <<"p","n","g">> -> <<"p","n","g">>
    [] format = <<"m","j","p","e","g">> \/ format = <<"j","p","e","g">> \/ format = <<"j","p","g">> -> <<"j","p","g">>
    [] format = <<"w","e","b","p">> -> <<"w","e","b","p">>
    [] format = <<"r","a","w","v","i","d","e","o">> -> <<"r","a","w">>
    [] format = <<"n","u","l","l">> -> <<"n","u","l","l">>
    [] OTHER -> format

\* the index of the last occurrence of ch in s, 0 when there is none
RECURSIVE LastIndexFrom(_, _, _)
LastIndexFrom(s, ch, i) ==
  IF i = 0 THEN 0
  ELSE IF s[i] = ch THEN i
  ELSE LastIndexFrom(s, ch, i - 1)

LastIndex(s, ch) == LastIndexFrom(s, ch, Len(s))

\* Path::file_name: the last component of the path
file_name(path) == SubSeq(path, LastIndex(path, "/") + 1, Len(path))

\* Path::file_stem: the file name without its last extension (a name with no
\* dot, or only a leading one, is its own stem)
file_stem(path) ==
  LET name == file_name(path)
      dot == LastIndex(name, ".")
  IN IF dot <= 1 THEN name ELSE SubSeq(name, 1, dot - 1)

\* path.parent().unwrap_or("."): the path without its last component, "." for
\* a path that has no parent
parent_of(path) ==
  LET slash == LastIndex(path, "/")
  IN IF path = <<>> THEN << "." >>
     ELSE IF slash = 0 THEN <<>>
     ELSE SubSeq(path, 1, slash - 1)

\* Path::join of a directory and a file name
join(parent, name) == IF parent = <<>> THEN name ELSE parent \o << "/" >> \o name

\* the decimal text of a counter ({} in format!)
RECURSIVE to_string(_)
to_string(n) ==
  IF n < 10 THEN << DigitChars[n + 1] >>
  ELSE to_string(n \div 10) \o << DigitChars[(n % 10) + 1] >>

\* the extension generate_output_path picks
extension_of(preset_id, format) ==
  IF IsSome(preset_id)
    THEN LET p == find_preset(Unwrap(preset_id))
         IN IF IsSome(p) THEN Unwrap(p).extension ELSE <<"m","p","4">>
  ELSE IF IsSome(format) THEN format_to_extension(Unwrap(format))
  ELSE <<"m","p","4">>

\* format!("{}_Convertified.{}", stem, extension) under parent
base_output(parent, stem, extension) ==
  join(parent, stem \o <<"_","C","o","n","v","e","r","t","i","f","i","e","d">> \o << "." >> \o extension)

\* format!("{}_Convertified_{}.{}", stem, counter, extension) under parent
output_path(parent, stem, counter, extension) ==
  join(parent, stem \o <<"_","C","o","n","v","e","r","t","i","f","i","e","d","_">> \o to_string(counter)
                 \o << "." >> \o extension)

\* Path::exists of a candidate: number None is the base name, Some(k) the
\* candidate numbered k
exists(number) ==
  IF number = None THEN fs.base
  ELSE \E r \in fs.series : r[1] <= Unwrap(number) /\ Unwrap(number) <= r[2]

\* the get_output_path command up to the base name: the stem, the parent and
\* the extension are computed and the base name is returned if it is free
GetOutputPath(input_paths, preset_ids, formats) ==
  /\ call = None
  /\ \E input_path \in input_paths, preset_id \in preset_ids, format \in formats :
       LET stem == file_stem(input_path)
           parent == parent_of(input_path)
           extension == extension_of(preset_id, format)
       IN call' = Some([ op |-> "get_output_path",
                         input_path |-> input_path,
                         preset_id |-> preset_id,
                         format |-> format,
                         stem |-> stem,
                         parent |-> parent,
                         extension |-> extension,
                         counter |-> 2,
                         n_exists |-> 1,
                         result |-> IF ~exists(None)
                                      THEN Some(base_output(parent, stem, extension))
                                      ELSE None ])
  /\ UNCHANGED << converting, lock, cancel_flag, pc, run, ret, logs, log_dir, file,
                  clock, nCalls, hist, fs, ffprobe >>

\* a slip: the counter is compared with the limit before it is incremented
loop_step_LimitFirst(g) ==
  IF ~exists(Some(g.counter))
    THEN [g EXCEPT !.n_exists = @ + 1,
                   !.result = Some(output_path(g.parent, g.stem, g.counter, g.extension))]
  ELSE IF g.counter + 1 >= SafetyLimit
    THEN [g EXCEPT !.n_exists = @ + 1, !.counter = @ + 1,
                   !.result = Some(output_path(g.parent, g.stem, g.counter, g.extension))]
  ELSE [g EXCEPT !.n_exists = @ + 1, !.counter = @ + 1]

\* one turn of the loop on the locals g: the candidate numbered counter is
\* returned if it is free, or if the incremented counter is over the limit
loop_step(g) ==
  IF ~exists(Some(g.counter))
    THEN [g EXCEPT !.n_exists = @ + 1,
                   !.result = Some(output_path(g.parent, g.stem, g.counter, g.extension))]
  ELSE IF g.counter + 1 > SafetyLimit
    THEN [g EXCEPT !.n_exists = @ + 1, !.counter = @ + 1,
                   !.result = Some(output_path(g.parent, g.stem, g.counter, g.extension))]
  ELSE [g EXCEPT !.n_exists = @ + 1, !.counter = @ + 1]

GenLoop ==
  /\ IsSome(call)
  /\ Unwrap(call).op = "get_output_path"
  /\ Unwrap(call).result = None
  /\ call' = Some(loop_step(Unwrap(call)))
  /\ UNCHANGED << converting, lock, cancel_flag, pc, run, ret, logs, log_dir, file,
                  clock, nCalls, hist, fs, ffprobe >>

(***************************************************************************)
(* probe.rs                                                                *)
(***************************************************************************)
\* str::parse::<u64>(): an optional + and at least one digit, nothing else
\* (values past u64::MAX are outside the sampled texts)
ParseU64(s) ==
  LET body == IF s # <<>> /\ s[1] = "+" THEN Tail(s) ELSE s
  IN IF body # <<>> /\ (\A i \in 1 .. Len(body) : IsDigit(body[i]))
       THEN Some(DecVal(body))
       ELSE None

\* Option::and_then(|t| t.parse().ok()) with the parser given as 1 (f64) or 2 (u64)
and_then_parse(field, parser) ==
  IF field = None THEN None
  ELSE IF parser = 1 THEN ParseF64(Unwrap(field))
  ELSE ParseU64(Unwrap(field))

\* impl From<&str> for StreamType
StreamType_from(s) ==
  CASE s = "video" -> "Video"
    [] s = "audio" -> "Audio"
    [] s = "subtitle" -> "Subtitle"
    [] s = "data" -> "Data"
    [] s = "attachment" -> "Attachment"
    [] OTHER -> "Unknown"

\* the StreamInfo of each decoded stream (the type; the other fields are copied)
stream_infos(streams) ==
  [i \in 1 .. Len(streams) |->
     [stream_type |-> StreamType_from(unwrap_or(streams[i].codec_type, "unknown"))]]

\* the MediaInfo built from the decoded output, which has a format section
media_info(path) ==
  LET format == Unwrap(Unwrap(ffprobe.stdout).format)
      streams == stream_infos(unwrap_or(Unwrap(ffprobe.stdout).streams, <<>>))
  IN [ path |-> path,
       filename |-> file_name(path),
       format |-> [ duration |-> and_then_parse(format.duration, 1),
                    size |-> and_then_parse(format.size, 2),
                    bit_rate |-> and_then_parse(format.bit_rate, 2) ],
       streams |-> streams,
       has_video |-> \E i \in DOMAIN streams : streams[i].stream_type = "Video",
       has_audio |-> \E i \in DOMAIN streams : streams[i].stream_type = "Audio",
       has_subtitles |-> \E i \in DOMAIN streams : streams[i].stream_type = "Subtitle" ]

\* the outcome of probe_file; invoked tells whether Command::output was called
ProbeErr(kind, msg, invoked) == [ok |-> FALSE, kind |-> kind, msg |-> msg, invoked |-> invoked]

\* a slip: the output is decoded before the exit status is looked at
probe_file_DecodeFirst(path) ==
  IF ~fs.input THEN ProbeErr("FileNotFound", path, FALSE)
  ELSE IF ~ffprobe.started THEN ProbeErr("ExecutionFailed", << "io error" >>, TRUE)
  ELSE IF ffprobe.stdout = None THEN ProbeErr("ParseFailed", << "serde error" >>, TRUE)
  ELSE IF Unwrap(ffprobe.stdout).format = None
    THEN ProbeErr("ParseFailed", << "Missing format info" >>, TRUE)
  ELSE IF ~ffprobe.success THEN ProbeErr("ExecutionFailed", ffprobe.stderr, TRUE)
  ELSE [ok |-> TRUE, kind |-> "MediaInfo", msg |-> media_info(path), invoked |-> TRUE]

\* probe_file(path, _)
probe_file(path) ==
  IF ~fs.input THEN ProbeErr("FileNotFound", path, FALSE)
  ELSE IF ~ffprobe.started THEN ProbeErr("ExecutionFailed", << "io error" >>, TRUE)
  ELSE IF ~ffprobe.success THEN ProbeErr("ExecutionFailed", ffprobe.stderr, TRUE)
  ELSE IF ffprobe.stdout = None THEN ProbeErr("ParseFailed", << "serde error" >>, TRUE)
  ELSE IF Unwrap(ffprobe.stdout).format = None
    THEN ProbeErr("ParseFailed", << "Missing format info" >>, TRUE)
  ELSE [ok |-> TRUE, kind |-> "MediaInfo", msg |-> media_info(path), invoked |-> TRUE]

\* Get the duration of the input file in seconds (hundredths)
get_duration(input_path) ==
  LET probed == probe_file(input_path)
  IN IF probed.ok THEN probed.msg.format.duration ELSE None

\* the probe_media_file command
ProbeMediaFile(paths) ==
  /\ call = None
  /\ \E path \in paths :
       call' = Some([op |-> "probe_media_file", path |-> path,
                     result |-> Some(probe_file(path))])
  /\ UNCHANGED << converting, lock, cancel_flag, pc, run, ret, logs, log_dir, file,
                  clock, nCalls, hist, fs, ffprobe >>

(***************************************************************************)
(* Specifications                                                          *)
(***************************************************************************)
\* what get_sidecar_path can resolve to
FfmpegPaths == { None, Some("sidecar") }

\* the inputs drawn while one run is followed in depth
RunPresetIds == { None, Some(<<"n","o","p","e">>) }

\* the inputs drawn while several runs are followed
AppPresetIds == { Some(<<"m","p","4","_","h","2","6","4">>), Some(<<"n","o","p","e">>) }
AppDurations == { Some(1000) }
AppEvents == { Ev("Progress", "", <<>>, T_half), Ev("Done", "", <<>>, <<>>) }

\* the steps of start_convert that draw no input
Step(c) ==
  \/ StartConvertLock(c)
  \/ StartConvertReset(c)
  \/ StartConvertUnmark(c)
  \/ ConvBuild(c)
  \/ ConvValidate(c)
  \/ ConvSpawn(c)
  \/ ConvStreamEnd(c)
  \/ ConvWait(c)

\* The application: callers issue commands concurrently, run after run.
Init == InitWith({ None })

Next ==
  \/ \E c \in Callers : Step(c)
  \/ \E c \in Callers : StartConvertCall(c, AppPresetIds, MaxRuns)
  \/ \E c \in Callers : ConvProbe(c, { None }, AppDurations)
  \/ \E c \in Callers : ConvEvent(c, AppEvents, MaxAppEvents)
  \/ \E c \in Callers : IsConvertingCall(c)
  \/ \E c \in Callers : IsConvertingLock(c)
  \/ cancel_convert

Spec == Init /\ [][Next]_vars

\* One run followed in depth: a single start_convert call, every kind of
\* event, elapsed-time text and probed duration.
NextRun ==
  \/ \E c \in Callers : Step(c)
  \/ \E c \in Callers : StartConvertCall(c, RunPresetIds, 1)
  \/ \E c \in Callers : ConvProbe(c, FfmpegPaths, Durations)
  \/ \E c \in Callers : ConvEvent(c, Events, MaxEvents)
  \/ cancel_convert

SpecRun == Init /\ [][NextRun]_vars

\* The LogStore on its own: clients record sealed logs concurrently, clear
\* the store and read it, with and without a log directory.
InitStore == InitWith({ None, Some(<< "d" >>) })

NextStore ==
  \/ \E c \in Callers : AddLogCall(c)
  \/ \E c \in Callers : AddLogMemory(c)
  \/ \E c \in Callers : AddLogFile(c)
  \/ clear_logs
  \/ GetLogs
  \/ GetLastLog

SpecStore == InitStore /\ [][NextStore]_vars

\* The argument builder on its own: start_convert has taken the guard and
\* start_conversion is about to build the arguments of one of these
\* ConvertOptions.
ArgInputPaths == { InputPath, <<"-","c",":","v">> }
ArgSelections ==
  { None } \cup
  { Some([include_video |-> v, include_audio |-> a, include_subtitles |-> t]) :
      v \in BOOLEAN, a \in BOOLEAN, t \in BOOLEAN }
ArgPresetIds ==
  { None, Some(<<"n","o","p","e">>) }
    \cup { Some(get_all_presets[i].id) : i \in DOMAIN get_all_presets }
ArgAdvanced ==
  { None } \cup
  { Some([format |-> f, video_codec |-> v, audio_codec |-> a, extra_args |-> e]) :
      f \in { None, Some(<<"m","k","v">>) },
      v \in { None, Some(<<"l","i","b","x","2","6","5">>) },
      a \in { None, Some(<<"l","i","b","o","p","u","s">>) },
      e \in { None, Some(<<"-","a","n"," ","-","r"," ","3","0">>) } }
ArgOptions ==
  { [input_path |-> i, output_path |-> OutputPath, preset_id |-> p,
     advanced |-> a, stream_selection |-> s] :
      i \in ArgInputPaths, p \in ArgPresetIds, a \in ArgAdvanced, s \in ArgSelections }

\* start_convert of caller 1 has reached the call of start_conversion with
\* one of the given options
InitBuild(options) ==
  /\ converting = TRUE
  /\ lock = 1
  /\ cancel_flag = FALSE
  /\ pc = [c \in Callers |-> IF c = 1 THEN "conv_build" ELSE "idle"]
  /\ \E o \in options :
       run = [c \in Callers |->
                IF c = 1 THEN [InitRun EXCEPT !.options = Some(o)] ELSE InitRun]
  /\ ret = None
  /\ logs = <<>>
  /\ log_dir = None
  /\ file = <<>>
  /\ clock = 0
  /\ nCalls = 1
  /\ hist = InitHist
  /\ fs = InitFs
  /\ ffprobe = InitFfprobe
  /\ call = None

InitArgs == InitBuild(ArgOptions)

NextArgs == \E c \in Callers : ConvBuild(c)

SpecArgs == InitArgs /\ [][NextArgs]_vars

\* The tokenizer on its own: the options carry nothing but an
\* extra-argument string, every string over these characters up to
\* MaxExtraLen and the example of the specification.
ExtraChars == { "a", " ", "\t", "\"", "'" }
ExtraExample ==
  << "-","v","f"," ","\"","s","c","a","l","e","=","6","4","0",":","-","1","\"",
     " ","-","a","n" >>
ExtraStrings ==
  { ExtraExample } \cup UNION { [1 .. n -> ExtraChars] : n \in 0 .. MaxExtraLen }
TokOptions ==
  { [input_path |-> InputPath, output_path |-> OutputPath, preset_id |-> None,
     advanced |-> Some([format |-> None, video_codec |-> None, audio_codec |-> None,
                        extra_args |-> Some(e)]),
     stream_selection |-> None] : e \in ExtraStrings }

InitTok == InitBuild(TokOptions)

NextTok == \E c \in Callers : ConvBuild(c)

SpecTok == InitTok /\ [][NextTok]_vars

\* The output path resolver on its own: one get_output_path call on a file
\* system in which the base name and runs of numbered candidates exist.
ResolveInputs == { <<"c","l","i","p",".","m","o","v">>, <<"d","/","c","l","i","p",".","m","o","v">> }
ResolvePresetIds == { None, Some(<<"m","p","4","_","h","2","6","4">>), Some(<<"w","e","b","m","_","v","p","9">>), Some(<<"n","o","p","e">>) }
ResolveFormats == { None, Some(<<"m","a","t","r","o","s","k","a">>), Some(<<"x","y","z">>) }
ResolveSeries ==
  { {}, { << 2, 2 >> }, { << 3, 3 >> }, { << 2, 3 >> }, { << 2, 2 >>, << 4, 5 >> },
    { << 2, SafetyLimit - 1 >> }, { << 2, SafetyLimit >> } }

ResolveFileSystems ==
  { [input |-> TRUE, base |-> b, series |-> s] : b \in BOOLEAN, s \in ResolveSeries }

InitResolve == InitIn({ None }, ResolveFileSystems, { InitFfprobe })

NextResolve ==
  \/ GetOutputPath(ResolveInputs, ResolvePresetIds, ResolveFormats)
  \/ GenLoop

SpecResolve == InitResolve /\ [][NextResolve]_vars

\* Media introspection on its own: one probe_media_file call for a path that
\* exists or not, with an ffprobe that cannot be started, fails, or prints
\* output that decodes or not.
ProbeTexts == { None, Some(<<"1","0",".","0","0">>), Some(<<"1","2">>), Some(<<"N","/","A">>), Some(<<>>) }
ProbeFormats ==
  { None } \cup
  { Some([duration |-> d, size |-> z, bit_rate |-> b]) :
      d \in ProbeTexts, z \in ProbeTexts, b \in ProbeTexts }
ProbeStreams ==
  { None, Some(<< [codec_type |-> Some("video")] >>),
    Some(<< [codec_type |-> Some("audio")], [codec_type |-> None] >>) }
ProbeStdouts ==
  { None } \cup { Some([format |-> f, streams |-> st]) : f \in ProbeFormats, st \in ProbeStreams }
Ffprobes ==
  { InitFfprobe }
  \cup { [started |-> TRUE, success |-> FALSE, stderr |-> << "diagnostic" >>, stdout |-> o] :
           o \in ProbeStdouts }
  \cup { [started |-> TRUE, success |-> TRUE, stderr |-> <<>>, stdout |-> o] :
           o \in ProbeStdouts }
ProbeFileSystems == { [InitFs EXCEPT !.input = b] : b \in BOOLEAN }

InitProbe == InitIn({ None }, ProbeFileSystems, Ffprobes)

NextProbe == ProbeMediaFile({ InputPath })

SpecProbe == InitProbe /\ [][NextProbe]_vars

\* One run with its probe: the duration is what get_duration makes of the
\* file system and the ffprobe the run finds.
ProbedDurationTexts == { None, Some(<<"1","0",".","0","0">>), Some(<<"N","/","A">>) }
ProbedFfprobes ==
  { InitFfprobe,
    [started |-> TRUE, success |-> FALSE, stderr |-> << "diagnostic" >>, stdout |-> None],
    [started |-> TRUE, success |-> TRUE, stderr |-> <<>>, stdout |-> None],
    [started |-> TRUE, success |-> TRUE, stderr |-> <<>>,
     stdout |-> Some([format |-> None, streams |-> None])] }
  \cup { [started |-> TRUE, success |-> TRUE, stderr |-> <<>>,
          stdout |-> Some([format |-> Some([duration |-> d, size |-> None, bit_rate |-> None]),
                           streams |-> None])] : d \in ProbedDurationTexts }
ProbedEvents ==
  { Ev("Progress", "", <<>>, T_half), Ev("Progress", "", <<>>, T_over),
    Ev("Done", "", <<>>, <<>>) }

InitProbed == InitIn({ None }, ProbeFileSystems, ProbedFfprobes)

NextProbed ==
  \/ \E c \in Callers : Step(c)
  \/ \E c \in Callers : StartConvertCall(c, { None }, 1)
  \/ \E c \in Callers :
       ConvProbe(c, { None }, { get_duration(Unwrap(run[c].options).input_path) })
  \/ \E c \in Callers : ConvEvent(c, ProbedEvents, MaxEvents)
  \/ cancel_convert

SpecProbed == InitProbed /\ [][NextProbed]_vars

\* The export of the store on its own: a store (of capacity ExportLen or
\* more) that holds up to ExportLen logs, with and without preset, advanced
\* summary, end time, error message, entries and entry context, is exported,
\* listed and cleared.
ExportLen == 2
ExportEntries ==
  { <<>>,
    << [timestamp |-> 1, level |-> "Info", message |-> << "m" >>, context |-> None] >>,
    << [timestamp |-> 1, level |-> "Error", message |-> << "e" >>, context |-> Some("FFmpeg")],
       [timestamp |-> 2, level |-> "Warning", message |-> << "w" >>, context |-> None] >> }
ExportOpenLogs ==
  { [ConversionLog_new(1, InputPath, OutputPath, p, a, << "ffmpeg", <<>> >>)
       EXCEPT !.entries = es] :
      p \in { None, Some(<<"m","k","v">>) },
      a \in { None, advanced_str(Some([format |-> Some(<<"m","k","v">>), video_codec |-> None,
                                       audio_codec |-> None, extra_args |-> None])) },
      es \in ExportEntries }
ExportSampleLogs ==
  ExportOpenLogs
    \cup { finish(l, 3, TRUE, None) : l \in ExportOpenLogs }
    \cup { finish(l, 3, FALSE, Some(<< "x" >>)) : l \in ExportOpenLogs }
ExportStores ==
  UNION { [1 .. n -> ExportSampleLogs] : n \in 0 .. ExportLen }

InitExport ==
  /\ converting = FALSE
  /\ lock = 0
  /\ cancel_flag = FALSE
  /\ pc = [c \in Callers |-> "idle"]
  /\ run = [c \in Callers |-> InitRun]
  /\ ret = None
  /\ logs \in ExportStores
  /\ log_dir = None
  /\ file = <<>>
  /\ clock = 3
  /\ nCalls = 0
  /\ hist = InitHist
  /\ fs = InitFs
  /\ ffprobe = InitFfprobe
  /\ call = None

NextExport ==
  \/ ExportLogs
  \/ GetLogs

SpecExport == InitExport /\ [][NextExport]_vars

\* The elapsed-time parser inside a run: one run whose single progress event
\* carries any text of up to MaxTimeLen characters, or one of the longer
\* sample texts.
TimeChars == { "1", ":", ".", "x" }
T_example == <<"0","1",":","0","2",":","0","3",".","5","0">>
ParsedTimeTexts ==
  UNION { [1 .. n -> TimeChars] : n \in 0 .. MaxTimeLen } \cup TimeTexts \cup { T_example }
ParsedEvents == { Ev("Progress", "", <<>>, t) : t \in ParsedTimeTexts }

NextTime ==
  \/ \E c \in Callers : Step(c)
  \/ \E c \in Callers : StartConvertCall(c, { None }, 1)
  \/ \E c \in Callers : ConvProbe(c, { None }, { None })
  \/ \E c \in Callers : ConvEvent(c, ParsedEvents, 1)

SpecTime == Init /\ [][NextTime]_vars

\* One ConversionLog on its own: a client creates it, adds entries and seals
\* it in any order the API allows.
NextLog ==
  \/ \E c \in Callers : LogNew(c)
  \/ \E c \in Callers : LogAddEntry(c)
  \/ \E c \in Callers : LogFinish(c)

SpecLog == Init /\ [][NextLog]_vars

(***************************************************************************)
(* Properties                                                              *)
(***************************************************************************)
\* start_conversion has returned to start_convert, which has not yet cleared
\* the converting flag: the run's locals are still in view
Returned(c) == pc[c] = "start_unmark"

\* the run's ConversionLog is sealed as failed with this error message
SealedFailed(r, msg) ==
  /\ IsSome(r.conv_log)
  /\ IsSome(Unwrap(r.conv_log).ended_at)
  /\ Unwrap(r.conv_log).success = FALSE
  /\ Unwrap(r.conv_log).error_message = Some(msg)

\* the store holds the run's ConversionLog as it is at return, put there by
\* exactly one add_log call
RecordedOnce(r) ==
  /\ r.n_add_log = 1
  /\ IsSome(r.conv_log)
  /\ Len(logs) >= 1
  /\ logs[Len(logs)] = Unwrap(r.conv_log)

\* the positions of the completion and failure notifications of a run
TerminalNotes(r) ==
  { i \in DOMAIN r.emitted : r.emitted[i].name \in { "convert-done", "convert-error" } }

\* the positions of the error- and fatal-level log events in a history
ErrorEvents(s) ==
  { i \in DOMAIN s : s[i].kind = "Log" /\ s[i].level \in { "Error", "Fatal" } }

\* the message a failed run is expected to report after the history s
ExpectedError(s) ==
  IF ErrorEvents(s) = {}
    THEN << "Unknown error" >>
    ELSE s[CHOOSE i \in ErrorEvents(s) : \A j \in ErrorEvents(s) : j <= i].msg

\* C1 (as the specification states it): a start_convert request issued while
\* another conversion is active is rejected at once; it never waits for the
\* active run and then goes on to start a conversion of its own, so such a
\* request is only ever found at the lock, about to be rejected.
C1_RejectedImmediately ==
  \A c \in Callers : run[c].called_active => pc[c] = "start_lock"

\* C2: under any interleaving of start_convert, cancel_convert and
\* is_converting calls, at most one conversion run is active.
C2_AtMostOneRun ==
  Cardinality({ c \in Callers : InRun(c) }) <= 1

\* a run is in its event loop while another start_convert call is pending
C2_Witness ==
  \E c, d \in Callers : c # d /\ pc[c] = "conv_loop" /\ pc[d] = "start_lock"

\* C3 (as the specification states it): a run during which cancellation was
\* requested after the process was spawned and before any progress
\* notification ends with Cancelled, a log sealed as failed with "Cancelled",
\* and a killed process.
C3_CancelledBeforeProgress ==
  \A c \in Callers :
    ( /\ Returned(c)
      /\ IsSome(run[c].cancel_req)
      /\ Unwrap(run[c].cancel_req).spawned
      /\ Unwrap(run[c].cancel_req).emitted = 0 )
    => /\ run[c].result = Some(Err("Cancelled", <<>>))
       /\ SealedFailed(run[c], << "Cancelled" >>)
       /\ run[c].child = "killed"

\* C3 (amended): if cancellation is requested during a run before any
\* progress notification and the event stream yields an event afterwards,
\* the run ends with Cancelled, its log is sealed as failed with "Cancelled"
\* and recorded, and the process is killed.
C3_CancelledAtNextEvent ==
  \A c \in Callers :
    ( /\ IsSome(run[c].cancel_req)
      /\ Unwrap(run[c].cancel_req).emitted = 0
      /\ run[c].fetched > Unwrap(run[c].cancel_req).fetched )
    => /\ Returned(c)
       /\ run[c].result = Some(Err("Cancelled", <<>>))
       /\ SealedFailed(run[c], << "Cancelled" >>)
       /\ RecordedOnce(run[c])
       /\ run[c].child = "killed"

\* cancellation was requested before the first event and an event followed
C3_Witness ==
  \E c \in Callers :
    /\ IsSome(run[c].cancel_req)
    /\ Unwrap(run[c].cancel_req).emitted = 0
    /\ Unwrap(run[c].cancel_req).fetched = 0
    /\ run[c].fetched = 1
    /\ run[c].child = "killed"

\* C4: on every turn of the event loop taken while the cancellation flag is
\* set, the process is killed, exactly one entry (the cancellation entry) is
\* logged, the log is sealed as failed with "Cancelled", Cancelled is
\* returned, the loop is left, and the event fetched on that turn is neither
\* matched, logged nor notified.
C4_CancelCheckedFirst ==
  [][ \A c \in Callers :
        ( /\ pc[c] = "conv_loop"
          /\ cancel_flag
          /\ run'[c].fetched = run[c].fetched + 1 )
        => /\ run'[c].child = "killed"
           /\ Unwrap(run'[c].conv_log).entries =
                Append(Unwrap(run[c].conv_log).entries,
                       [ timestamp |-> clock, level |-> "Warning",
                         message |-> << "Conversion cancelled by user" >>,
                         context |-> None ])
           /\ SealedFailed(run'[c], << "Cancelled" >>)
           /\ run'[c].result = Some(Err("Cancelled", <<>>))
           /\ run'[c].emitted = run[c].emitted
           /\ run'[c].seen = run[c].seen
           /\ run'[c].last_error = run[c].last_error
           /\ pc'[c] = "start_unmark" ]_vars

\* a run cancelled on a later turn, after an event had been matched
C4_Witness ==
  \E c \in Callers :
    /\ Returned(c)
    /\ run[c].result = Some(Err("Cancelled", <<>>))
    /\ Len(run[c].seen) >= 1
    /\ run[c].fetched = Len(run[c].seen) + 1

\* C5: while a conversion is running, a cancel_convert request can complete:
\* it needs neither the converting guard nor the run loop.
C5_CancelNeverBlocked ==
  (\E c \in Callers : InRun(c)) => ENABLED cancel_convert

\* cancel_convert has completed during a run that holds the guard
C5_Witness ==
  \E c \in Callers :
    InRun(c) /\ lock = c /\ cancel_flag /\ IsSome(run[c].cancel_req)

\* C6 (as the specification states it): every terminal outcome of a run,
\* unknown preset included, is recorded in the store exactly once.
C6_EveryOutcomeRecorded ==
  \A c \in Callers : Returned(c) => run[c].n_add_log = 1

\* C6 (amended): every terminal outcome of a run that created its
\* ConversionLog (all but the unknown preset, which returns PresetNotFound
\* before the log exists and records nothing) is recorded exactly once, at
\* the end of the run, sealed, and the recorded copy is the log as it is at
\* return: nothing is added after recording.
C6_OutcomeWithLogRecorded ==
  \A c \in Callers :
    /\ InRun(c) => run[c].n_add_log = 0
    /\ Returned(c) =>
         IF run[c].result = Some(Err("PresetNotFound", << "n", "o", "p", "e" >>))
           THEN run[c].n_add_log = 0 /\ run[c].conv_log = None /\ logs = <<>>
           ELSE /\ RecordedOnce(run[c])
                /\ run[c].n_finish = 1
                /\ IsSome(Unwrap(run[c].conv_log).ended_at)

\* a run that matched two events has returned and is recorded
C6_Witness ==
  \E c \in Callers :
    Returned(c) /\ Len(run[c].seen) = 2 /\ run[c].n_add_log = 1 /\ Len(logs) = 1

\* C7 (as the specification states it): every terminal branch that is told
\* to the caller by notification emits a completion or failure notification:
\* cancellation, missing input, missing output directory, spawn failure and
\* wait failure as well as success and non-zero exit.
C7_EveryBranchNotifies ==
  \A c \in Callers :
    (Returned(c) /\ IsSome(run[c].conv_log)) => TerminalNotes(run[c]) # {}

\* C7 (amended): a run emits exactly one terminal notification, as its last
\* notification, when the process exits: convert-done on a zero status,
\* convert-error on a non-zero status; on cancellation, missing input,
\* missing output directory, spawn failure and wait failure it emits none
\* and the caller learns the outcome from the returned error.
C7_NotifiesOnExitOnly ==
  \A c \in Callers :
    Returned(c) =>
      IF run[c].child = "exited"
        THEN /\ TerminalNotes(run[c]) = { Len(run[c].emitted) }
             /\ run[c].emitted[Len(run[c].emitted)].name =
                  (IF Unwrap(run[c].result).ok THEN "convert-done" ELSE "convert-error")
        ELSE /\ TerminalNotes(run[c]) = {}
             /\ ~Unwrap(run[c].result).ok

\* a run whose process exited with a non-zero status after one progress
\* notification, seen at return
C7_Witness ==
  \E c \in Callers :
    /\ Returned(c)
    /\ run[c].child = "exited"
    /\ ~Unwrap(run[c].result).ok
    /\ Len(run[c].emitted) = 2
    /\ run[c].emitted[1].name = "convert-progress"

\* C8 (as the specification states it): the percent of every progress
\* notification is in [0,100] (percent is held in hundredths).
C8_PercentInRange ==
  \A c \in Callers : \A i \in DOMAIN run[c].emitted :
    run[c].emitted[i].name = "convert-progress"
      => run[c].emitted[i].percent >= 0 /\ run[c].emitted[i].percent <= 10000

\* C9: a run that ends with PresetNotFound, InputNotFound or
\* InvalidOutputPath never spawned a process; the missing-input and
\* missing-output-directory failures are logged, sealed as failed with their
\* message and recorded before the error is returned.
C9_ValidationBeforeSpawn ==
  \A c \in Callers :
    (Returned(c) /\ Unwrap(run[c].result).kind \in
                      { "PresetNotFound", "InputNotFound", "InvalidOutputPath" })
    => /\ run[c].child = "none"
       /\ run[c].emitted = <<>>
       /\ Unwrap(run[c].result).kind # "PresetNotFound" =>
            /\ SealedFailed(run[c], Unwrap(run[c].result).msg)
            /\ RecordedOnce(run[c])
            /\ Len(Unwrap(run[c].conv_log).entries) = 2
            /\ Unwrap(run[c].conv_log).entries[2].level = "Error"

\* a run has returned InvalidOutputPath
C9_Witness ==
  \E c \in Callers :
    Returned(c) /\ Unwrap(run[c].result).kind = "InvalidOutputPath"

\* C10: when the process exits with a non-zero status the run returns
\* ConversionFailed, the log is sealed as failed and the convert-error
\* notification is emitted, all three carrying the message of the last
\* error- or fatal-level log event matched in the loop, or "Unknown error"
\* if there was none.
C10_FailureCarriesLastError ==
  \A c \in Callers :
    (Returned(c) /\ run[c].child = "exited" /\ ~Unwrap(run[c].result).ok)
    => LET m == ExpectedError(run[c].seen) IN
       /\ run[c].result = Some(Err("ConversionFailed", m))
       /\ SealedFailed(run[c], m)
       /\ Len(run[c].emitted) >= 1
       /\ run[c].emitted[Len(run[c].emitted)] = Note("convert-error", 0, 0, m)

\* a failed run that matched an error-level and then a fatal-level event
C10_Witness ==
  \E c \in Callers :
    /\ Returned(c) /\ run[c].child = "exited" /\ ~Unwrap(run[c].result).ok
    /\ Len(run[c].seen) = 2
    /\ run[c].seen[1].level = "Error"
    /\ run[c].seen[2].level = "Fatal"

\* the last n elements of a sequence
LastN(s, n) == SubSeq(s, Len(s) - n + 1, Len(s))

\* the rendered blocks of a sequence of logs, one after the other
RECURSIVE Render(_)
Render(ls) == IF ls = <<>> THEN <<>> ELSE format_log_for_file(Head(ls)) \o Render(Tail(ls))

\* the elements of a sequence
Range(s) == { s[i] : i \in DOMAIN s }

\* the position of x in a sequence that holds it once
PosIn(s, x) == CHOOSE k \in DOMAIN s : s[k] = x

\* no add_log call is in progress
Quiet == \A c \in Callers : pc[c] = "idle"

C13_FileOrderIsMemoryOrder ==
  \A i, j \in DOMAIN hist.appended :
    i < j => PosIn(hist.pushed, hist.appended[i]) < PosIn(hist.pushed, hist.appended[j])
\* C14 (as the specification states it): add_entry on a sealed ConversionLog
\* is a no-op, so every entry of a sealed log was added before the log was
\* sealed.
C14_SealedLogIgnoresAppend ==
  \A c \in Callers :
    (IsSome(run[c].conv_log) /\ IsSome(Unwrap(run[c].conv_log).ended_at))
    => \A i \in DOMAIN Unwrap(run[c].conv_log).entries :
         Unwrap(run[c].conv_log).entries[i].timestamp
           < Unwrap(Unwrap(run[c].conv_log).ended_at)

\* C15: in every run that creates a ConversionLog, ended_at, success and
\* error_message keep their initial values while the run is going on and are
\* set by a single finish call at the terminal outcome, whichever path the
\* run takes: the sealed success flag agrees with the returned result and a
\* failed log carries an error message.
C15_SealedExactlyOnce ==
  \A c \in Callers :
    IsSome(run[c].conv_log) =>
      LET log == Unwrap(run[c].conv_log) IN
      /\ run[c].n_finish <= 1
      /\ InRun(c) => /\ run[c].n_finish = 0
                     /\ log.ended_at = None
                     /\ log.success = FALSE
                     /\ log.error_message = None
      /\ Returned(c) => /\ run[c].n_finish = 1
                        /\ IsSome(log.ended_at)
                        /\ log.success = Unwrap(run[c].result).ok
                        /\ ~log.success => IsSome(log.error_message)

\* a run that failed after its process was spawned, without an exit status,
\* has returned with its log sealed
C15_Witness ==
  \E c \in Callers :
    /\ Returned(c)
    /\ run[c].n_finish = 1
    /\ Unwrap(run[c].result).kind = "ConversionFailed"
    /\ run[c].child # "exited"

\* the arguments of a run have been built
Built(c) == pc[c] = "conv_validate"

\* how often x occurs in a sequence
Count(s, x) == Cardinality({ i \in DOMAIN s : s[i] = x })

\* a flag followed by its value, if the value is given
Pair(flag, opt) == IF IsSome(opt) THEN << flag, Unwrap(opt) >> ELSE <<>>

FlagVN == <<"-","v","n">>
FlagAN == <<"-","a","n">>
FlagSN == <<"-","s","n">>
FlagCV == <<"-","c",":","v">>
FlagCA == <<"-","c",":","a">>

\* the stream kind is excluded by the options: a selection is given and its
\* inclusion flag is false
Excludes(o, flag) ==
  /\ IsSome(o.stream_selection)
  /\ CASE flag = FlagVN -> ~Unwrap(o.stream_selection).include_video
       [] flag = FlagAN -> ~Unwrap(o.stream_selection).include_audio
       [] flag = FlagSN -> ~Unwrap(o.stream_selection).include_subtitles

\* the exclusion flags the options ask for, in the order video, audio, subtitles
ExclusionFlags(o) ==
     (IF Excludes(o, FlagVN) THEN << FlagVN >> ELSE <<>>)
  \o (IF Excludes(o, FlagAN) THEN << FlagAN >> ELSE <<>>)
  \o (IF Excludes(o, FlagSN) THEN << FlagSN >> ELSE <<>>)

\* the identifier is in the catalog
InCatalog(id) == \E p \in Range(get_all_presets) : p.id = id

\* the catalog preset the options name
PresetOf(o) == CHOOSE p \in Range(get_all_presets) : p.id = Unwrap(o.preset_id)

\* the flags a preset stands for: format, video codec, audio codec, extras
ExpectedPresetFlags(p) ==
  Pair(<<"-","f">>, p.format) \o Pair(FlagCV, p.video_codec)
    \o Pair(FlagCA, p.audio_codec) \o p.extra_args

\* the extra arguments a preset (if any) and the advanced options (if any)
\* bring along
PresetExtras(o) == IF IsSome(o.preset_id) THEN PresetOf(o).extra_args ELSE <<>>
AdvancedExtras(o) ==
  IF IsSome(o.advanced) /\ IsSome(Unwrap(o.advanced).extra_args)
    THEN parse_extra_args(Unwrap(Unwrap(o.advanced).extra_args)) ELSE <<>>

\* the advanced options override the codec the flag stands for
Overrides(o, flag) ==
  /\ IsSome(o.advanced)
  /\ IF flag = FlagCV THEN IsSome(Unwrap(o.advanced).video_codec)
                      ELSE IsSome(Unwrap(o.advanced).audio_codec)

\* the list the specification describes: input, exclusion flags, the preset's
\* flags without an overridden codec pair, the advanced arguments, -y, output
ExpectedArgs(o) ==
  LET p == PresetOf(o)
      adv == Unwrap(o.advanced)
  IN  << <<"-","i">>, o.input_path >> \o ExclusionFlags(o)
        \o (IF IsSome(o.preset_id)
              THEN Pair(<<"-","f">>, p.format)
                     \o (IF Overrides(o, FlagCV) THEN <<>> ELSE Pair(FlagCV, p.video_codec))
                     \o (IF Overrides(o, FlagCA) THEN <<>> ELSE Pair(FlagCA, p.audio_codec))
                     \o p.extra_args
              ELSE <<>>)
        \o (IF IsSome(o.advanced)
              THEN Pair(<<"-","f">>, adv.format) \o Pair(FlagCV, adv.video_codec)
                     \o Pair(FlagCA, adv.audio_codec) \o AdvancedExtras(o)
              ELSE <<>>)
        \o << <<"-","y">>, o.output_path >>

\* C16 (as the specification states it): the built list holds -vn, -an, -sn
\* exactly once for each stream kind whose inclusion flag is false and not at
\* all for the others, whatever the preset and the advanced options.
C16_ExclusionFlagsExactlyOnce ==
  \A c \in Callers :
    Built(c) =>
      \A flag \in { FlagVN, FlagAN, FlagSN } :
        Count(run[c].args, flag) =
          (IF Excludes(Unwrap(run[c].options), flag) THEN 1 ELSE 0)

\* C16 (amended): for options whose input path is not itself a codec flag,
\* the stream selection contributes each exclusion flag exactly once when
\* the inclusion flag is false and not at all otherwise (or when the
\* selection is absent), directly after the input path in the order -vn,
\* -an, -sn; the list holds in addition every exclusion flag that the
\* preset's extra arguments or the advanced extra arguments carry.
C16_ExclusionFlagsFromSelection ==
  \A c \in Callers :
    (Built(c) /\ Unwrap(run[c].options).input_path \notin { FlagCV, FlagCA }) =>
      LET o == Unwrap(run[c].options) IN
      /\ SubSeq(run[c].args, 3, 2 + Len(ExclusionFlags(o))) = ExclusionFlags(o)
      /\ \A flag \in { FlagVN, FlagAN, FlagSN } :
           Count(run[c].args, flag) =
             (IF Excludes(o, flag) THEN 1 ELSE 0)
               + Count(PresetExtras(o), flag) + Count(AdvancedExtras(o), flag)

\* the mp3 preset with video excluded by the selection: -vn is there twice
C16_Witness ==
  \E c \in Callers :
    /\ Built(c)
    /\ Unwrap(run[c].options).input_path = InputPath
    /\ Unwrap(run[c].options).preset_id = Some(<<"m","p","3">>)
    /\ Excludes(Unwrap(run[c].options), FlagVN)
    /\ Count(run[c].args, FlagVN) = 2

\* C17 (as the specification states it): with a preset that declares the
\* codec and an advanced override of it, the list holds the codec flag
\* exactly once, followed by the override value, and the removal has deleted
\* the preset's flag and value and nothing else.
C17_OverrideReplacesCodec ==
  \A c \in Callers :
    Built(c) =>
      LET o == Unwrap(run[c].options) IN
      /\ ( /\ IsSome(o.preset_id) /\ IsSome(PresetOf(o).video_codec)
           /\ Overrides(o, FlagCV) ) =>
           /\ Count(run[c].args, FlagCV) = 1
           /\ run[c].args[PosIn(run[c].args, FlagCV) + 1] = Unwrap(Unwrap(o.advanced).video_codec)
           /\ run[c].args = ExpectedArgs(o)
      /\ ( /\ IsSome(o.preset_id) /\ IsSome(PresetOf(o).audio_codec)
           /\ Overrides(o, FlagCA) ) =>
           /\ Count(run[c].args, FlagCA) = 1
           /\ run[c].args[PosIn(run[c].args, FlagCA) + 1] = Unwrap(Unwrap(o.advanced).audio_codec)
           /\ run[c].args = ExpectedArgs(o)

\* C18 (as the specification states it): whenever the arguments are built,
\* the list begins with -i and the input path and ends with -y and the
\* output path.
C18_InputFirstOutputLast ==
  \A c \in Callers :
    Built(c) =>
      LET o == Unwrap(run[c].options)
          n == Len(run[c].args)
      IN  /\ n >= 4
          /\ run[c].args[1] = <<"-","i">>
          /\ run[c].args[2] = o.input_path
          /\ run[c].args[n - 1] = <<"-","y">>
          /\ run[c].args[n] = o.output_path

\* C19: a preset identifier that is not in the catalog makes the build fail
\* with PresetNotFound, before anything is logged; a catalog preset puts its
\* flags in the order format, video codec, audio codec, extra arguments right
\* after the input and the exclusion flags, and the advanced arguments (here
\* those that override no codec) follow them, then -y and the output.
C19_PresetFlagsInOrder ==
  \A c \in Callers :
    LET o == Unwrap(run[c].options) IN
    /\ Returned(c) =>
         /\ IsSome(o.preset_id) /\ ~InCatalog(Unwrap(o.preset_id))
         /\ run[c].result = Some(Err("PresetNotFound", Unwrap(o.preset_id)))
         /\ run[c].conv_log = None
    /\ Built(c) => (IsSome(o.preset_id) => InCatalog(Unwrap(o.preset_id)))
    /\ ( /\ Built(c) /\ IsSome(o.preset_id)
         /\ ~Overrides(o, FlagCV) /\ ~Overrides(o, FlagCA) ) =>
         LET k == 2 + Len(ExclusionFlags(o))
             pf == ExpectedPresetFlags(PresetOf(o))
         IN  /\ SubSeq(run[c].args, 1, k) = << <<"-","i">>, o.input_path >> \o ExclusionFlags(o)
             /\ SubSeq(run[c].args, k + 1, k + Len(pf)) = pf
             /\ SubSeq(run[c].args, k + Len(pf) + 1, Len(run[c].args)) =
                  (IF IsSome(o.advanced)
                     THEN Pair(<<"-","f">>, Unwrap(o.advanced).format) \o AdvancedExtras(o)
                     ELSE <<>>)
                    \o << <<"-","y">>, o.output_path >>

\* the mp4_h264 preset with audio excluded and an advanced format: all four
\* kinds of preset flag are in the list
C19_Witness ==
  \E c \in Callers :
    /\ Built(c)
    /\ Unwrap(run[c].options).preset_id = Some(<<"m","p","4","_","h","2","6","4">>)
    /\ Excludes(Unwrap(run[c].options), FlagAN)
    /\ IsSome(Unwrap(run[c].options).advanced)
    /\ IsSome(Unwrap(Unwrap(run[c].options).advanced).format)
    /\ ~Overrides(Unwrap(run[c].options), FlagCV)
    /\ ~Overrides(Unwrap(run[c].options), FlagCA)

\* the tokens of a string as the specification describes them: the
\* characters of seps separate tokens outside quotes, a quoted span (either
\* quote character, which is dropped) belongs to the token around it, and an
\* unterminated quote runs to the end.  quote is "" outside a quoted span.
RECURSIVE RefScan(_, _, _, _, _, _)
RefScan(e, i, seps, quote, cur, out) ==
  IF i > Len(e)
    THEN IF cur # <<>> THEN Append(out, cur) ELSE out
  ELSE IF quote = ""
    THEN IF e[i] \in { "\"", "'" } THEN RefScan(e, i + 1, seps, e[i], cur, out)
         ELSE IF e[i] \in seps
           THEN RefScan(e, i + 1, seps, "", <<>>,
                        IF cur # <<>> THEN Append(out, cur) ELSE out)
         ELSE RefScan(e, i + 1, seps, "", Append(cur, e[i]), out)
  ELSE IF e[i] = quote THEN RefScan(e, i + 1, seps, "", cur, out)
  ELSE RefScan(e, i + 1, seps, quote, Append(cur, e[i]), out)

RefTokens(e, seps) == RefScan(e, 1, seps, "", <<>>, <<>>)

\* the options carry an extra-argument string and nothing else
OnlyExtras(o) ==
  /\ o.preset_id = None /\ o.stream_selection = None
  /\ IsSome(o.advanced)
  /\ Unwrap(o.advanced).format = None
  /\ Unwrap(o.advanced).video_codec = None
  /\ Unwrap(o.advanced).audio_codec = None
  /\ IsSome(Unwrap(o.advanced).extra_args)

\* C20 (as the specification states it): the extra-argument string is split
\* at any whitespace character outside quotes (space, tab, newline), a quoted
\* span stays in one token with its quote characters removed, and an
\* unterminated quote runs to the end of the string; the tokens are the
\* arguments between the input path and -y.
C20_TokenizedByWhitespace ==
  \A c \in Callers :
    (Built(c) /\ OnlyExtras(Unwrap(run[c].options))) =>
      SubSeq(run[c].args, 3, Len(run[c].args) - 2) =
        RefTokens(Unwrap(Unwrap(Unwrap(run[c].options).advanced).extra_args),
                  { " ", "\t", "\n" })

\* the get_output_path call has returned its path
Resolved == IsSome(call) /\ Unwrap(call).op = "get_output_path" /\ IsSome(Unwrap(call).result)

\* the extension by precedence: the extension of the catalog preset the
\* identifier names, else the mapping of the format, else mp4
PrecedenceExtension(preset_id, format) ==
  IF IsSome(preset_id) /\ IsSome(find_preset(Unwrap(preset_id)))
    THEN Unwrap(find_preset(Unwrap(preset_id))).extension
  ELSE IF IsSome(format) THEN format_to_extension(Unwrap(format))
  ELSE <<"m","p","4">>

\* C21 (as the specification states it): for every combination of preset
\* identifier (absent, in the catalog, not in the catalog) and format (absent,
\* in the mapping table, unknown) the extension is the preset's declared
\* extension if a preset supplies one, else the mapping of the format (an
\* unknown format passes through), else mp4 only when neither yields one.
C21_ExtensionByPrecedence ==
  (IsSome(call) /\ Unwrap(call).op = "get_output_path") =>
    Unwrap(call).extension =
      PrecedenceExtension(Unwrap(call).preset_id, Unwrap(call).format)

\* the numbers k of 2 .. SafetyLimit whose candidate does not exist
FreeNumbers == { k \in 2 .. SafetyLimit : ~exists(Some(k)) }

\* the path the resolver is to return for the locals g
ExpectedPath(g) ==
  IF ~exists(None) THEN base_output(g.parent, g.stem, g.extension)
  ELSE IF FreeNumbers # {}
    THEN output_path(g.parent, g.stem,
                     CHOOSE k \in FreeNumbers : \A j \in FreeNumbers : k <= j,
                     g.extension)
  ELSE output_path(g.parent, g.stem, SafetyLimit, g.extension)

\* C22: the call returns <stem>_Convertified.<ext> if that path does not
\* exist, else <stem>_Convertified_<k>.<ext> for the smallest k >= 2 whose
\* path does not exist, else (every candidate up to 9999 exists) the candidate
\* numbered 9999; while it has not returned the counter is within 2 .. 9999
\* and a turn of the loop can be taken, each turn asks about one candidate and
\* moves the counter up by one, and no step changes the file system.
C22_SmallestFreeCandidate ==
  /\ [](IsSome(call) /\ Unwrap(call).op = "get_output_path" =>
          LET g == Unwrap(call)
          IN IF IsSome(g.result)
               THEN g.result = Some(ExpectedPath(g))
               ELSE /\ g.counter \in 2 .. SafetyLimit
                    /\ g.n_exists = g.counter - 1
                    /\ ENABLED GenLoop)
  /\ [][ /\ fs' = fs
         /\ (IsSome(call) /\ Unwrap(call).op = "get_output_path") =>
              /\ Unwrap(call').counter \in { Unwrap(call).counter, Unwrap(call).counter + 1 }
              /\ Unwrap(call').n_exists = Unwrap(call).n_exists + 1 ]_vars

\* a call returned the candidate numbered 9999 although it exists, as do the
\* base name and every candidate before it
C22_Witness ==
  /\ Resolved
  /\ fs.base /\ FreeNumbers = {}
  /\ Unwrap(call).result =
       Some(output_path(Unwrap(call).parent, Unwrap(call).stem, SafetyLimit,
                        Unwrap(call).extension))

\* the probe_media_file call has returned
Probed == IsSome(call) /\ Unwrap(call).op = "probe_media_file"

\* the value a numeric text of the sampled outputs stands for: parser 1 reads
\* a decimal number (hundredths), parser 2 an unsigned integer
ExpectedNumber(field, parser) ==
  IF field = Some(<<"1","0",".","0","0">>) THEN (IF parser = 1 THEN Some(1000) ELSE None)
  ELSE IF field = Some(<<"1","2">>) THEN (IF parser = 1 THEN Some(1200) ELSE Some(12))
  ELSE None

\* C26: probe fails with FileNotFound, the tool not invoked, when the path
\* does not exist; else with ExecutionFailed when the tool cannot run or
\* exits non-zero, whatever it printed; else with ParseFailed when the output
\* does not decode or has no format section; else it succeeds, and a numeric
\* text field (duration, size, bit rate) that does not parse is absent.
C26_ProbeErrorOrder ==
  Probed =>
    LET r == Unwrap(Unwrap(call).result) IN
    IF ~fs.input THEN ~r.ok /\ r.kind = "FileNotFound" /\ ~r.invoked
    ELSE IF ~ffprobe.started \/ ~ffprobe.success
      THEN ~r.ok /\ r.kind = "ExecutionFailed" /\ r.invoked
    ELSE IF ffprobe.stdout = None \/ Unwrap(ffprobe.stdout).format = None
      THEN ~r.ok /\ r.kind = "ParseFailed" /\ r.invoked
    ELSE LET f == Unwrap(Unwrap(ffprobe.stdout).format) IN
         /\ r.ok /\ r.invoked
         /\ r.msg.format.duration = ExpectedNumber(f.duration, 1)
         /\ r.msg.format.size = ExpectedNumber(f.size, 2)
         /\ r.msg.format.bit_rate = ExpectedNumber(f.bit_rate, 2)

\* a probe succeeded on an output whose duration and bit rate texts do not
\* parse and whose size does
C26_Witness ==
  /\ Probed
  /\ Unwrap(Unwrap(call).result).ok
  /\ Unwrap(Unwrap(ffprobe.stdout).format).duration = Some(<<"N","/","A">>)
  /\ Unwrap(Unwrap(ffprobe.stdout).format).bit_rate = Some(<<>>)
  /\ Unwrap(Unwrap(call).result).msg.format.duration = None
  /\ Unwrap(Unwrap(call).result).msg.format.size = Some(12)

\* probing fails for the run: probe_file returns an error (missing path, tool
\* not runnable or failing, output undecodable or without format section) or
\* a MediaInfo without duration (text absent or not a number)
ProbingFails ==
  \/ ~fs.input
  \/ ~ffprobe.started
  \/ ~ffprobe.success
  \/ ffprobe.stdout = None
  \/ Unwrap(ffprobe.stdout).format = None
  \/ Unwrap(Unwrap(ffprobe.stdout).format).duration # Some(<<"1","0",".","0","0">>)

\* C23: when probing fails the run is not ended by it (right after the probe
\* it has no result and is about to spawn the process), and every progress
\* notification of the run carries percent 0.
C23_ProbeFailureNotFatal ==
  \A c \in Callers :
    ProbingFails =>
      /\ pc[c] = "conv_spawn" =>
           /\ run[c].result = None
           /\ run[c].duration = None
           /\ ENABLED ConvSpawn(c)
      /\ \A i \in DOMAIN run[c].emitted :
           run[c].emitted[i].name = "convert-progress" => run[c].emitted[i].percent = 0

\* a run whose ffprobe exited non-zero went on, reported progress at 5 s and
\* then past 10 s with percent 0, and ended in success
C23_Witness ==
  \E c \in Callers :
    /\ fs.input /\ ffprobe.started /\ ~ffprobe.success
    /\ Returned(c) /\ Unwrap(run[c].result).ok
    /\ Len(run[c].emitted) = 3
    /\ run[c].emitted[1].percent = 0 /\ run[c].emitted[1].time_secs = 500
    /\ run[c].emitted[2].percent = 0 /\ run[c].emitted[2].time_secs > 1000

\* C24: whenever no start_convert invocation holds the guard (every run so
\* far has returned, with whatever outcome) the converting flag is false, so
\* is_converting reads false and a start_convert request that takes the
\* guard is accepted: no request is ever answered with "already in progress".
C24_GuardClearedAfterRun ==
  /\ lock = 0 => ~converting
  /\ ~(IsSome(ret) /\ Unwrap(ret).kind = "AlreadyInProgress")

\* a run was cancelled and returned, and the next start_convert request has
\* been accepted
C24_Witness ==
  \E c \in Callers :
    /\ nCalls = 2
    /\ pc[c] = "start_reset"
    /\ ret = Some(Err("Cancelled", <<>>))

\* C25 (as the specification states it): an is_converting call pending while
\* a conversion started by start_convert is in progress can return, and
\* returns true; one pending while none is in progress returns false.
C25_IsConvertingReportsRun ==
  \A c \in Callers :
    pc[c] = "isconv_lock" =>
      IF \E d \in Callers : InRun(d)
        THEN ENABLED (IsConvertingLock(c) /\ ret' = Some(Ok("is_converting", << TRUE >>)))
        ELSE lock = 0 =>
               ENABLED (IsConvertingLock(c) /\ ret' = Some(Ok("is_converting", << FALSE >>)))

\* the process of the run was sent a kill request, or child.wait() was called
\* on it (and returned its status or failed)
Attended(r) ==
  \/ r.child \in { "killed", "exited" }
  \/ r.result = Some(Err("ConversionFailed", << "Failed to wait for ffmpeg: {}" >>))

\* C27 (as the specification states it): whenever a run returns after its
\* process was spawned, the process has been sent a kill request or has had
\* its exit awaited, on every return path, the failure to obtain the event
\* iterator included.
C27_NoUnattendedProcess ==
  \A c \in Callers :
    (Returned(c) /\ run[c].child # "none") => Attended(run[c])

\* the positions of the Done events among the events a run matched
DoneEvents(s) == { i \in DOMAIN s : s[i].kind = "Done" }

\* the progress events among the events a run matched
ProgressCount(s) == Cardinality({ i \in DOMAIN s : s[i].kind = "Progress" })

\* C28: once the loop has matched a Done event, that event is the last one
\* the run fetches and matches; the run is then at child.wait() with the
\* "FFmpeg process completed" entry as its last log entry and one progress
\* notification per progress event before Done, and it returns from the wait
\* step: its outcome is that of the wait, never Cancelled.
C28_DoneStopsConsumption ==
  \A c \in Callers :
    DoneEvents(run[c].seen) # {} =>
      LET r == run[c]
          log == Unwrap(r.conv_log)
      IN /\ DoneEvents(r.seen) = { Len(r.seen) }
         /\ r.fetched = Len(r.seen)
         /\ pc[c] \in { "conv_wait", "start_unmark" }
         /\ pc[c] = "conv_wait" =>
              /\ ENABLED ConvWait(c)
              /\ log.entries[Len(log.entries)].message = << "FFmpeg process completed" >>
              /\ Len(r.emitted) = ProgressCount(r.seen)
         /\ Returned(c) =>
              /\ Attended(r) /\ r.child # "killed"
              /\ Len(r.emitted) <= ProgressCount(r.seen) + 1

\* a run matched Done as its first event, while the stream could deliver
\* another event, and is waiting for the exit status
C28_Witness ==
  \E c \in Callers :
    /\ pc[c] = "conv_wait"
    /\ Len(run[c].seen) = 1
    /\ run[c].seen[1].kind = "Done"
    /\ run[c].fetched < MaxEvents

\* C29: a run whose process exited with a successful status has sealed its
\* log as success without error message, with "Conversion successful" as the
\* last entry, has emitted convert-done as its last and only terminal
\* notification and returns success, whatever events were matched in the
\* loop; and no run returns success without a successful exit status.
C29_SuccessOnExitStatusAlone ==
  \A c \in Callers :
    Returned(c) =>
      LET r == run[c] IN
      IF r.status = Some("success")
        THEN LET log == Unwrap(r.conv_log) IN
             /\ r.result = Some(Ok("Ok", <<>>))
             /\ log.success /\ log.error_message = None /\ IsSome(log.ended_at)
             /\ log.entries[Len(log.entries)].message = << "Conversion successful" >>
             /\ TerminalNotes(r) = { Len(r.emitted) }
             /\ r.emitted[Len(r.emitted)] = Note("convert-done", 0, 0, <<>>)
        ELSE ~Unwrap(r.result).ok

\* a run returned success although an error-level and a fatal-level log
\* event were matched in its loop
C29_Witness ==
  \E c \in Callers :
    /\ Returned(c)
    /\ run[c].status = Some("success")
    /\ run[c].error_count = 2
    /\ IsSome(run[c].last_error)
    /\ Unwrap(run[c].result).ok

\* C30: the text export_logs returns is the per-log blocks of
\* format_log_for_file (the text add_log appends to the file), one after the
\* other in the order of get_logs, for logs with and without end time,
\* preset, advanced summary, error message and entry context.
C30_ExportIsFileRendering ==
  (IsSome(ret) /\ Unwrap(ret).kind = "export_logs") =>
    Unwrap(ret).msg = Render(get_logs(logs))

\* a store of two different logs has been exported: the first sealed as
\* failed with preset, advanced summary and an entry with context, the second
\* unsealed without any of them
C30_Witness ==
  /\ IsSome(ret) /\ Unwrap(ret).kind = "export_logs"
  /\ Len(logs) = 2
  /\ IsSome(logs[1].error_message) /\ IsSome(logs[1].preset_id)
  /\ IsSome(logs[1].advanced_options)
  /\ Len(logs[1].entries) = 2 /\ IsSome(logs[1].entries[1].context)
  /\ logs[2].ended_at = None /\ logs[2].preset_id = None /\ logs[2].entries = <<>>
  /\ Unwrap(ret).msg # <<>>

\* the positions of the colons of a text
Colons(t) == { i \in DOMAIN t : t[i] = ":" }

\* the part of a text between two positions, both excluded
Between(t, a, b) == SubSeq(t, a + 1, b - 1)

\* the seconds (hundredths) a three-part text stands for, a part that is not
\* a number counted as zero; 0 for a text that has not exactly two colons
ExpectedSeconds(t) ==
  IF Cardinality(Colons(t)) # 2 THEN 0
  ELSE LET a == CHOOSE i \in Colons(t) : \A j \in Colons(t) : i <= j
           b == CHOOSE i \in Colons(t) : \A j \in Colons(t) : j <= i
       IN unwrap_or(ParseF64(Between(t, 0, a)), 0) * 3600
            + unwrap_or(ParseF64(Between(t, a, b)), 0) * 60
            + unwrap_or(ParseF64(Between(t, b, Len(t) + 1)), 0)

\* C31: the elapsed seconds of every progress notification are those of the
\* event's text split at ':': hours*3600 + minutes*60 + seconds for a text of
\* exactly three parts, a part that does not parse counted as zero, and 0 for
\* a text of any other number of parts; "01:02:03.50" gives 3723.5 and the
\* two-part "05:30" gives 0.
C31_ThreePartsOrZero ==
  /\ \A c \in Callers : \A i \in DOMAIN run[c].emitted :
       run[c].emitted[i].name = "convert-progress" =>
         /\ i <= Len(run[c].seen)
         /\ run[c].emitted[i].time_secs = ExpectedSeconds(run[c].seen[i].time)
         /\ run[c].seen[i].time = T_example => run[c].emitted[i].time_secs = 372350
         /\ run[c].seen[i].time = T_two => run[c].emitted[i].time_secs = 0
         /\ run[c].seen[i].time = <<"1",":","x",":","1">> =>
              run[c].emitted[i].time_secs = 360100

\* a run has reported the progress of the text "1:1" (two parts) as 0 seconds
C31_Witness ==
  \E c \in Callers :
    /\ Len(run[c].emitted) >= 1
    /\ run[c].emitted[1].name = "convert-progress"
    /\ run[c].seen[1].time = <<"1",":","1">>
    /\ run[c].emitted[1].time_secs = 0

\* C32: a cancellation request made before start_convert reset the flag
\* (while idle, during or after an earlier run, or while the request waited
\* for the guard) does not reach the run: as long as cancel_convert has not
\* been called since the reset the flag is false during the run, and a run
\* that ends with Cancelled has had such a call.
C32_StaleCancelIgnored ==
  \A c \in Callers :
    /\ (InRun(c) /\ run[c].cancel_req = None) => ~cancel_flag
    /\ (Returned(c) /\ run[c].result = Some(Err("Cancelled", <<>>)))
         => IsSome(run[c].cancel_req)

\* the previous run ended with Cancelled, which left the flag set, and the
\* next run has gone through a turn of its loop and returned success without
\* a cancellation request of its own
C32_Witness ==
  \E c \in Callers :
    /\ ret = Some(Err("Cancelled", <<>>))
    /\ Returned(c)
    /\ run[c].cancel_req = None
    /\ run[c].fetched >= 1
    /\ Unwrap(run[c].result).ok

\* the cancellation flag was not set during the run before the loop took its
\* last event: it was first set after that event, or the loop took no event
UncheckedCancel(r) ==
  \/ r.fetched = 0
  \/ IsSome(r.cancel_req) /\ Unwrap(r.cancel_req).fetched = r.fetched

\* C33: a run whose cancellation flag was first set after the loop took its
\* last event, or whose stream delivered no event, is not cancelled: no kill
\* is issued, Cancelled is not returned, at the wait every wait result and
\* exit status is still possible, and the returned outcome follows the exit
\* status (success on a zero status, ConversionFailed with the last captured
\* error otherwise).
C33_LateCancelIgnored ==
  \A c \in Callers :
    UncheckedCancel(run[c]) =>
      /\ run[c].child # "killed"
      /\ run[c].result # Some(Err("Cancelled", <<>>))
      /\ pc[c] = "conv_wait" =>
           /\ run[c].child = "running"
           /\ run[c].result = None
           /\ \A status \in { "success", "failure" } :
                ENABLED (ConvWait(c) /\ run'[c].status = Some(status))
           /\ ENABLED (ConvWait(c) /\ run'[c].status = None)
      /\ (Returned(c) /\ run[c].status = Some("success")) =>
           run[c].result = Some(Ok("Ok", <<>>))
      /\ (Returned(c) /\ run[c].status = Some("failure")) =>
           run[c].result = Some(Err("ConversionFailed",
                                    unwrap_or(run[c].last_error, <<"Unknown error">>)))

\* cancel_convert was first called after the Done event had ended the loop,
\* the flag is still set, and the run returned success on the exit status
C33_Witness ==
  \E c \in Callers :
    /\ Returned(c)
    /\ cancel_flag
    /\ IsSome(run[c].cancel_req)
    /\ Unwrap(run[c].cancel_req).fetched = run[c].fetched
    /\ run[c].fetched >= 1
    /\ run[c].seen[Len(run[c].seen)].kind = "Done"
    /\ run[c].status = Some("success")
    /\ run[c].result = Some(Ok("Ok", <<>>))

(***************************************************************************)
(* The store under orchestrator runs: runs follow one another, are         *)
(* cancelled at any time, and a client clears the store at any time.       *)
(***************************************************************************)
NextKept ==
  \/ \E c \in Callers : Step(c)
  \/ \E c \in Callers : StartConvertCall(c, AppPresetIds, MaxRuns)
  \/ \E c \in Callers : ConvProbe(c, { None }, AppDurations)
  \/ \E c \in Callers : ConvEvent(c, AppEvents, MaxAppEvents)
  \/ cancel_convert
  \/ clear_logs

SpecKept == Init /\ [][NextKept]_vars

\* a sealed log: ended_at is set, and a successful one has no error message
Sealed(log) ==
  /\ IsSome(log.ended_at)
  /\ log.success => log.error_message = None

\* the store after x was pushed onto ls and the oldest logs beyond the
\* capacity were dropped
PushedOnto(ls, x) ==
  LET all == Append(ls, x)
      dropped == IF Len(all) > max_logs THEN Len(all) - max_logs ELSE 0
  IN  SubSeq(all, dropped + 1, Len(all))

\* C34: every log in the store is sealed, and the store changes only by
\* being cleared or by a run pushing the log it has just sealed, which drops
\* the oldest logs beyond the capacity: the logs that stay keep their
\* entries, ended_at, success and error_message, whatever the runs do to
\* their own logs.
C34_StoredLogsSealedAndFixed ==
  /\ [](\A i \in DOMAIN logs : Sealed(logs[i]))
  /\ [][ \/ logs' = logs
         \/ logs' = <<>>
         \/ \E c \in Callers :
              /\ IsSome(run'[c].conv_log)
              /\ Sealed(Unwrap(run'[c].conv_log))
              /\ run'[c].n_add_log = run[c].n_add_log + 1
              /\ logs' = PushedOnto(logs, Unwrap(run'[c].conv_log)) ]_vars

\* the store holds the sealed log of an earlier run while a later run is in
\* its loop, has added entries to its own, unsealed log and has been cancelled
C34_Witness ==
  \E c \in Callers :
    /\ pc[c] = "conv_loop"
    /\ cancel_flag
    /\ Len(logs) = 1
    /\ Sealed(logs[1])
    /\ logs[1].success
    /\ logs[1].id # Unwrap(run[c].conv_log).id
    /\ Unwrap(run[c].conv_log).ended_at = None
    /\ Len(Unwrap(run[c].conv_log).entries) >= 1

=============================================================================
